---- MODULE Spec2Model ----
(***************************************************************************)
(* Order-state reconciliation of the CryptoBot payment bot.                *)
(*                                                                         *)
(* The store is the SQLite database of database.py (users, orders,         *)
(* transactions).  Every Database method opens its own connection and      *)
(* commits on exit, so one Database call is one atomic step.  The bot      *)
(* process (main.py, admin.py) runs its handlers as coroutines of one      *)
(* event loop: they interleave with each other only at an await.  The      *)
(* webhook server (webhook.py) is a threaded Flask application in another  *)
(* thread or process: its Database calls interleave with everything.       *)
(* Money is counted in cents.                                              *)
(***************************************************************************)
EXTENDS Integers, Sequences, FiniteSets, TLC

\* ---------------------------------------------------------------- bounds
\* increments of user aggregates a behaviour of Spec may make in all
MaxCredits == 2
\* handler invocations a behaviour of SpecLog may make in all
MaxLog == 2
\* coroutines of the bot's event loop that can be in flight together
MaxBotTasks == 1

\* ---------------------------------------------------------------- inputs
UserIds == {1, 2}
OrderIds == {1, 2}
InvoiceIds == {101, 102}
BotTasks == 1 .. MaxBotTasks
HookTasks == {MaxBotTasks + 1}
TaskIds == BotTasks \cup HookTasks
Assets == {"USDT"}
\* the two services of the repository; a deployment runs one of them
Programs == {"main.py", "bot.py"}
ProductIds == {"basic", "standard"}
\* who buys what
Purchases == {<<1, "basic">>, <<2, "standard">>}

PRODUCTS ==
    [p \in ProductIds |-> IF p = "basic" THEN 999 ELSE 2999]

\* PRODUCTS[p]["name"], in English
PRODUCT_NAMES ==
    [p \in ProductIds |-> IF p = "basic" THEN "Basic plan" ELSE "Standard plan"]

Null == "NULL"
Now == "now"
NoPayload == 0

VARIABLES
    users,          \* relation users: user_id -> [total_spent, orders_count]
    orders,         \* relation orders: order_id -> row
    transactions,   \* relation transactions, in insertion (rowid) order
    gw,             \* the provider's invoices: invoice id -> invoice
    tasks,          \* handler invocations in flight
    running,        \* bot task that owns the event loop between two awaits, or 0
    credits,        \* history: increments of the owner's aggregates made for each order
    log,            \* history: the handler invocations of a behaviour of SpecLog
    logging,        \* whether the behaviour keeps the log (SpecLog) or not (Spec)
    program,        \* the service that is deployed: main.py with webhook.py, or bot.py
    notified        \* history: payment-confirmed notifications attempted for each order

vars == <<users, orders, transactions, gw, tasks, running, credits, log, logging, program, notified>>

\* ------------------------------------------------------------ conversions
\* str(invoice_id): the orders and transactions relations keep invoice ids as TEXT
Str(i) == ToString(i)

\* int(order['invoice_id'])
ParseInt(s) == CHOOSE i \in InvoiceIds : ToString(i) = s

\* ------------------------------------------------------------------ rows
NoOrder ==
    [order_id |-> 0, user_id |-> 0, product_name |-> "", amount_usd |-> 0,
     currency |-> "", invoice_id |-> "", status |-> "none", paid_at |-> Null,
     recent |-> FALSE, old |-> FALSE]

NoPayment == [status |-> "none", is_paid |-> FALSE, amount |-> 0, asset |-> ""]

NoEvent ==
    [update_type |-> "", invoice_id |-> 0, payload |-> NoPayload,
     amount |-> 0, asset |-> "", signature |-> ""]

\* the local variable order of a handler: of the row it read, the columns it uses after
\* its guards (order_id, user_id, amount_usd, currency, invoice_id)
Local(order) ==
    [order EXCEPT !.status = "read", !.paid_at = Null, !.recent = FALSE]

Idle ==
    [kind |-> "idle", pc |-> "idle", order_id |-> 0, order |-> NoOrder,
     payment |-> NoPayment, event |-> NoEvent, queue |-> <<>>,
     checked |-> 0, confirmed |-> 0, held |-> <<>>, call |-> 0]

\* ---------------------------------------------------------- Database
get_order(ords, order_id) ==
    IF order_id \in DOMAIN ords THEN ords[order_id] ELSE NoOrder

\* the lookup without its WHERE clause
get_order_by_invoice_unfiltered(ords, invoice_id) ==
    IF DOMAIN ords = {} THEN NoOrder
    ELSE ords[CHOOSE o \in DOMAIN ords : \A p \in DOMAIN ords : o <= p]

get_order_by_invoice(ords, invoice_id) ==
    LET hits == {o \in DOMAIN ords : ords[o].invoice_id = invoice_id}
    IN  IF hits = {} THEN NoOrder
        ELSE ords[CHOOSE o \in hits : \A p \in hits : o <= p]

update_order_status(ords, order_id, status, paid_at) ==
    IF order_id \notin DOMAIN ords THEN ords
    ELSE IF paid_at # Null
         THEN [ords EXCEPT ![order_id].status = status, ![order_id].paid_at = paid_at]
         ELSE [ords EXCEPT ![order_id].status = status]

\* the update without its orders_count column
update_user_stats_spent_only(usrs, user_id, amount) ==
    IF user_id \notin DOMAIN usrs THEN usrs
    ELSE [usrs EXCEPT ![user_id].total_spent = @ + amount]

update_user_stats(usrs, user_id, amount) ==
    IF user_id \notin DOMAIN usrs THEN usrs
    ELSE [usrs EXCEPT ![user_id].total_spent = @ + amount,
                      ![user_id].orders_count = @ + 1]

get_or_create_user(usrs, user_id) ==
    IF user_id \in DOMAIN usrs THEN usrs
    ELSE [u \in DOMAIN usrs \cup {user_id} |->
            IF u = user_id THEN [total_spent |-> 0, orders_count |-> 0]
            ELSE usrs[u]]

create_order(ords, order) ==
    [o \in DOMAIN ords \cup {order.order_id} |->
        IF o = order.order_id THEN order ELSE ords[o]]

transaction_exists(txs, invoice_id) ==
    \E i \in 1 .. Len(txs) : txs[i].invoice_id = invoice_id

create_transaction(txs, invoice_id, order_id, amount, currency, status) ==
    Append(txs, [invoice_id |-> invoice_id, order_id |-> order_id,
                 amount |-> amount, currency |-> currency, status |-> status])

RECURSIVE RowsAsc(_, _)
RowsAsc(ords, ids) ==
    IF ids = {} THEN <<>>
    ELSE LET o == CHOOSE x \in ids : \A y \in ids : x <= y
         IN  <<ords[o]>> \o RowsAsc(ords, ids \ {o})

\* status = 'pending' AND created_at within the last 24 hours, oldest first
get_pending_orders(ords) ==
    RowsAsc(ords, {o \in DOMAIN ords : ords[o].status = "pending" /\ ords[o].recent})

\* ------------------------------------------------------ gateway client
status_map(raw) ==
    CASE raw = "active" -> "pending"
      [] raw = "paid" -> "paid"
      [] raw = "expired" -> "expired"
      [] OTHER -> "expired"

\* the result with is_paid taken for "not expired"
PaymentCheckNotExpired(invoice_id) ==
    IF invoice_id \notin DOMAIN gw
    THEN [status |-> "expired", is_paid |-> FALSE, amount |-> 0, asset |-> ""]
    ELSE LET st == status_map(gw[invoice_id].status)
         IN  [status |-> st, is_paid |-> (st # "expired"),
              amount |-> gw[invoice_id].amount, asset |-> gw[invoice_id].asset]

\* CryptoBotAPI.check_payment on a response of the provider
PaymentCheck(invoice_id) ==
    IF invoice_id \notin DOMAIN gw
    THEN [status |-> "expired", is_paid |-> FALSE, amount |-> 0, asset |-> ""]
    ELSE LET st == status_map(gw[invoice_id].status)
         IN  [status |-> st, is_paid |-> (st = "paid"),
              amount |-> gw[invoice_id].amount, asset |-> gw[invoice_id].asset]

\* what awaiting cryptobot.check_payment can produce: a result, or CryptoBotError
GatewayError == [status |-> "error", is_paid |-> FALSE, amount |-> 0, asset |-> ""]

CheckResults(invoice_id) == {PaymentCheck(invoice_id), GatewayError}

\* ------------------------------------------------ webhook.py: events
\* the bodies of a POST /webhook/cryptobot
Events ==
    [update_type : {"invoice_paid", "invoice_expired"}, invoice_id : InvoiceIds,
     payload : OrderIds \cup {NoPayload}, amount : {PRODUCTS[p] : p \in ProductIds},
     asset : Assets, signature : {"valid", "invalid", ""}]

\* what the provider posts once an invoice is paid (and posts again on a retry)
Genuine ==
    {[update_type |-> "invoice_paid", invoice_id |-> i, payload |-> gw[i].payload,
      amount |-> gw[i].amount, asset |-> gw[i].asset, signature |-> "valid"] :
        i \in {j \in DOMAIN gw : gw[j].status = "paid"}}

\* the provider's notification posted again by somebody else, without the correlation
\* payload and without signature
Unsigned ==
    {[ev EXCEPT !.payload = NoPayload, !.signature = ""] : ev \in Genuine}

\* what anybody who knows the URL can post under a signature that does not match the
\* body: invoice_paid about any invoice id with the last order id as payload, and
\* invoice_expired with a payload
Forgeable ==
    {ev \in Events :
        /\ ev.signature = "invalid"
        /\ ev.amount = PRODUCTS["basic"]
        /\ ev.payload # NoPayload
        /\ ev.update_type = "invoice_paid" => \A o \in OrderIds : o <= ev.payload}

\* of these, the invoice_expired ones are about an invoice of the provider
Forged ==
    {ev \in Forgeable :
        ev.update_type = "invoice_expired" =>
            ev.invoice_id \in DOMAIN gw /\ ev.payload = gw[ev.invoice_id].payload}

\* the bodies some behaviour posts: invoice_paid notifications, signed with their
\* payload or unsigned without it, and the forgeable ones
Requests ==
    {ev \in Events :
        /\ ev.update_type = "invoice_paid"
        /\ \/ ev.signature = "valid" /\ ev.payload # NoPayload
           \/ ev.signature = "" /\ ev.payload = NoPayload} \cup Forgeable

\* verify_webhook_signature(api_token, body, signature)
verify_webhook_signature(signature) == signature = "valid"

\* if update_type == 'invoice_paid': return self._handle_invoice_paid(payload)
RoutedByPrefix(update_type) == update_type \in {"invoice_paid", "invoice_expired"}

Routed(update_type) == update_type = "invoice_paid"

\* the requests a behaviour delivers: Spec keeps to the provider's notifications,
\* SpecLog has the forged ones as well
Posted ==
    IF logging THEN Genuine \cup Unsigned \cup Forged ELSE Genuine \cup Unsigned

\* --------------------------------------------------------------- helpers
OwnerCredited(order) ==
    IF order.user_id \in DOMAIN users
    THEN [credits EXCEPT ![order.order_id] = @ + 1]
    ELSE credits

RECURSIVE Sum(_, _)
Sum(f, S) ==
    IF S = {} THEN 0
    ELSE LET x == CHOOSE y \in S : TRUE IN f[x] + Sum(f, S \ {x})

\* increments a handler in flight may still make
Owed(t) ==
    CASE tasks[t].kind \in {"idle", "cancel", "manual_cancel"} -> 0
      [] tasks[t].kind = "sweep" ->
            IF tasks[t].pc \in {"transaction_exists"}
            THEN Len(tasks[t].queue) - 1 ELSE Len(tasks[t].queue)
      [] tasks[t].kind = "bot_sweep" ->
            IF tasks[t].pc = "gateway"
            THEN Len(tasks[t].held) + Len(tasks[t].queue) ELSE Len(tasks[t].held)
      [] tasks[t].pc \in {"transaction_exists", "create_transaction"} -> 0
      [] OTHER -> 1

\* the task has executed an UPDATE on its connection and not yet committed: it holds
\* the write lock of the database file
HoldsWrite(t) == tasks[t].kind = "bot_sweep" /\ tasks[t].held # <<>>

\* another connection that writes now waits for the lock, and raises
\* "database is locked" when its timeout runs out
Locked == \E t \in TaskIds : HoldsWrite(t)

\* a handler that can credit starts only while the history stays within MaxCredits
Budget(n) ==
    Sum(credits, OrderIds) + Sum([t \in TaskIds |-> Owed(t)], TaskIds) + n <= MaxCredits

CanStart(t) ==
    /\ tasks[t].kind = "idle"
    /\ t \in BotTasks => running = 0

\* what a behaviour admits of a handler invocation: under SpecLog at most MaxLog
\* invocations, each written to the log with the stored status of its order, whether
\* no other handler was in flight, the request of a webhook delivery, and the outcome
\* if the handler answers at once; under Spec any number while the increments stay
\* within MaxCredits
Quota(kind, o, ev, n, outcome) ==
    /\ IF logging
       THEN /\ Len(log) < MaxLog
            /\ log' = Append(log,
                    [kind |-> kind, order_id |-> o,
                     status |-> get_order(orders, o).status,
                     alone |-> (\A t \in TaskIds : tasks[t].kind = "idle"),
                     event |-> ev, replies |-> <<>>, outcome |-> outcome,
                     delivery |-> "", checked |-> 0, confirmed |-> 0])
       ELSE /\ Budget(n)
            /\ log' = log
    /\ UNCHANGED <<logging, program, notified>>

\* the log entry of the invocation keeps what the gateway answered it, and the
\* outcome if the handler ends on that answer
Heard(t, payment, outcome) ==
    /\ log' = IF logging
              THEN [log EXCEPT ![tasks[t].call].replies = Append(@, payment.status),
                               ![tasks[t].call].outcome = outcome]
              ELSE log
    /\ UNCHANGED <<logging, program, notified>>

\* the log entry of the invocation keeps the outcome the handler ends with
Answer(t, outcome) ==
    /\ log' = IF logging
              THEN [log EXCEPT ![tasks[t].call].outcome = outcome]
              ELSE log
    /\ UNCHANGED <<logging, program, notified>>

\* the handler ends with the payment-confirmed message to the owner of order o: the
\* attempt is counted, its result kept in the log entry with the outcome, and admins
\* is 1 when the message to the administrators follows
Delivers(t, o, delivery, admins, outcome) ==
    /\ log' = IF logging
              THEN [log EXCEPT ![tasks[t].call].outcome = outcome,
                               ![tasks[t].call].delivery = delivery]
              ELSE log
    /\ notified' = [notified EXCEPT ![o].user = @ + 1, ![o].admins = @ + admins]
    /\ UNCHANGED <<logging, program>>

\* the log entry of a sweep keeps the counters of its loop as well; those of the
\* last round are the ones its report shows
HeardCounting(t, payment, outcome, checked, confirmed) ==
    /\ log' = IF logging
              THEN [log EXCEPT ![tasks[t].call].replies = Append(@, payment.status),
                               ![tasks[t].call].outcome = outcome,
                               ![tasks[t].call].checked = checked,
                               ![tasks[t].call].confirmed = confirmed]
              ELSE log
    /\ UNCHANGED <<logging, program, notified>>

AnswerCounting(t, outcome, checked, confirmed) ==
    /\ log' = IF logging
              THEN [log EXCEPT ![tasks[t].call].outcome = outcome,
                               ![tasks[t].call].checked = checked,
                               ![tasks[t].call].confirmed = confirmed]
              ELSE log
    /\ UNCHANGED <<logging, program, notified>>

DeliversCounting(t, o, delivery, outcome, checked, confirmed) ==
    /\ log' = IF logging
              THEN [log EXCEPT ![tasks[t].call].outcome = outcome,
                               ![tasks[t].call].delivery = delivery,
                               ![tasks[t].call].checked = checked,
                               ![tasks[t].call].confirmed = confirmed]
              ELSE log
    /\ notified' = [notified EXCEPT ![o].user = @ + 1]
    /\ UNCHANGED <<logging, program>>

\* what becomes of a message sent through the Telegram API
Deliveries == {"ok", "failed"}

Init ==
    /\ users = <<>>
    /\ orders = <<>>
    /\ transactions = <<>>
    /\ gw = <<>>
    /\ tasks = [t \in TaskIds |-> Idle]
    /\ running = 0
    /\ credits = [o \in OrderIds |-> 0]
    /\ log = <<>>
    /\ logging = FALSE
    /\ program \in Programs
    /\ notified = [o \in OrderIds |-> [user |-> 0, admins |-> 0]]

\* ----------------------------------------------------------- environment
\* /start
cmd_start(u) ==
    /\ program = "main.py"
    /\ running = 0
    /\ users' = get_or_create_user(users, u)
    /\ UNCHANGED <<orders, transactions, gw, tasks, running, credits, log, logging, program, notified>>

\* /start of bot.py: INSERT OR REPLACE INTO users (user_id, username, first_name); the
\* row is written anew, total_spent and orders_count at their defaults
bot_cmd_start(u) ==
    /\ program = "bot.py"
    /\ running = 0
    /\ ~Locked
    /\ users' = [v \in DOMAIN users \cup {u} |->
                    IF v = u THEN [total_spent |-> 0, orders_count |-> 0] ELSE users[v]]
    /\ UNCHANGED <<orders, transactions, gw, tasks, running, credits, log, logging, program, notified>>

\* the purchase flow: the provider mints an invoice, the order is stored pending
CreateOrder(u, p, a) ==
    /\ running = 0
    /\ u \in DOMAIN users
    /\ \E o \in OrderIds :
        /\ o \notin DOMAIN orders
        /\ \A x \in OrderIds : x < o => x \in DOMAIN orders
        /\ LET inv == CHOOSE i \in InvoiceIds \ DOMAIN gw :
                            \A j \in InvoiceIds \ DOMAIN gw : i <= j
           IN  /\ gw' = [i \in DOMAIN gw \cup {inv} |->
                            IF i = inv
                            THEN [status |-> "active", amount |-> PRODUCTS[p],
                                  asset |-> a, payload |-> o]
                            ELSE gw[i]]
               /\ orders' = create_order(orders,
                              [order_id |-> o, user_id |-> u,
                               product_name |-> PRODUCT_NAMES[p],
                               amount_usd |-> PRODUCTS[p], currency |-> a,
                               invoice_id |-> Str(inv), status |-> "pending",
                               paid_at |-> Null, recent |-> TRUE, old |-> FALSE])
    /\ UNCHANGED <<users, transactions, tasks, running, credits, log, logging, program, notified>>

\* the customer pays the invoice at the provider
CustomerPays(i) ==
    /\ i \in DOMAIN gw
    /\ gw[i].status = "active"
    /\ gw' = [gw EXCEPT ![i].status = "paid"]
    /\ UNCHANGED <<users, orders, transactions, tasks, running, credits, log, logging, program, notified>>

\* the invoice runs out at the provider
InvoiceExpires(i) ==
    /\ i \in DOMAIN gw
    /\ gw[i].status = "active"
    /\ gw' = [gw EXCEPT ![i].status = "expired"]
    /\ UNCHANGED <<users, orders, transactions, tasks, running, credits, log, logging, program, notified>>

\* a day passes: the stored orders get older than the 24 hours of get_pending_orders
TimePasses ==
    /\ \E o \in DOMAIN orders : orders[o].recent
    /\ orders' = [o \in DOMAIN orders |-> [orders[o] EXCEPT !.recent = FALSE]]
    /\ UNCHANGED <<users, transactions, gw, tasks, running, credits, log, logging, program, notified>>

\* ------------------------------------------- main.py: check_payment
\* order = db.get_order(order_id); "order not found" is answered at once, otherwise
\* the gateway query is awaited
check_payment(t, o) ==
    /\ program = "main.py"
    /\ t \in BotTasks
    /\ CanStart(t)
    /\ LET order == get_order(orders, o)
       IN  IF order = NoOrder
           THEN /\ Quota("check", o, NoEvent, 1, "not_found")
                /\ tasks' = tasks
           ELSE /\ Quota("check", o, NoEvent, 1, "")
                /\ tasks' = [tasks EXCEPT ![t] =
                    [Idle EXCEPT !.kind = "check", !.pc = "gateway",
                                 !.order_id = o, !.order = Local(order),
                                 !.call = Len(log) + 1]]
    /\ UNCHANGED <<users, orders, transactions, gw, running, credits>>

\* the handler taking a failed query for an expired invoice
check_payment_gateway_expiring(t) ==
    /\ tasks[t].kind = "check"
    /\ tasks[t].pc = "gateway"
    /\ running = 0
    /\ \E payment \in CheckResults(ParseInt(tasks[t].order.invoice_id)) :
        IF payment.is_paid
        THEN /\ Heard(t, payment, "")
             /\ orders' = update_order_status(orders, tasks[t].order_id, "paid", Now)
             /\ tasks' = [tasks EXCEPT ![t].pc = "update_user_stats",
                                       ![t].payment = payment]
             /\ running' = t
        ELSE /\ Heard(t, payment, IF payment = GatewayError THEN "error" ELSE "not_paid")
             /\ orders' = IF payment = GatewayError
                          THEN update_order_status(orders, tasks[t].order_id, "expired", Null)
                          ELSE orders
             /\ tasks' = [tasks EXCEPT ![t] = Idle]
             /\ UNCHANGED running
    /\ UNCHANGED <<users, transactions, gw, credits>>

\* payment = await cryptobot.check_payment(...); if payment.is_paid:
\* db.update_order_status(order_id, 'paid', now); else the "payment pending" text is
\* shown; an exception is answered with "check failed"
check_payment_gateway(t) ==
    /\ tasks[t].kind = "check"
    /\ tasks[t].pc = "gateway"
    /\ running = 0
    /\ \E payment \in CheckResults(ParseInt(tasks[t].order.invoice_id)) :
        IF payment.is_paid
        THEN /\ Heard(t, payment, "")
             /\ orders' = update_order_status(orders, tasks[t].order_id, "paid", Now)
             /\ tasks' = [tasks EXCEPT ![t].pc = "update_user_stats",
                                       ![t].payment = payment]
             /\ running' = t
        ELSE /\ Heard(t, payment, IF payment = GatewayError THEN "error" ELSE "not_paid")
             /\ tasks' = [tasks EXCEPT ![t] = Idle]
             /\ UNCHANGED <<orders, running>>
    /\ UNCHANGED <<users, transactions, gw, credits>>

\* db.update_user_stats(order['user_id'], order['amount_usd'])
check_payment_update_user_stats(t) ==
    /\ tasks[t].kind = "check"
    /\ tasks[t].pc = "update_user_stats"
    /\ users' = update_user_stats(users, tasks[t].order.user_id, tasks[t].order.amount_usd)
    /\ credits' = OwnerCredited(tasks[t].order)
    /\ tasks' = [tasks EXCEPT ![t].pc = "transaction_exists"]
    /\ UNCHANGED <<orders, transactions, gw, running, log, logging, program, notified>>

\* if not db.transaction_exists(order['invoice_id']): ...; the success text is shown
check_payment_transaction_exists(t) ==
    /\ tasks[t].kind = "check"
    /\ tasks[t].pc = "transaction_exists"
    /\ IF transaction_exists(transactions, tasks[t].order.invoice_id)
       THEN /\ tasks' = [tasks EXCEPT ![t] = Idle]
            /\ running' = 0
            /\ \E d \in Deliveries :
                    Delivers(t, tasks[t].order_id, d, IF d = "ok" THEN 1 ELSE 0,
                             IF d = "ok" THEN "success" ELSE "error")
       ELSE /\ tasks' = [tasks EXCEPT ![t].pc = "create_transaction"]
            /\ UNCHANGED <<running, log, logging, program, notified>>
    /\ UNCHANGED <<users, orders, transactions, gw, credits>>

\* db.create_transaction(invoice_id=order['invoice_id'], order_id=order_id, ...); the
\* success text is shown
check_payment_create_transaction(t) ==
    /\ tasks[t].kind = "check"
    /\ tasks[t].pc = "create_transaction"
    /\ transactions' = create_transaction(transactions, tasks[t].order.invoice_id,
                            tasks[t].order_id, tasks[t].payment.amount,
                            tasks[t].payment.asset, "paid")
    /\ tasks' = [tasks EXCEPT ![t] = Idle]
    /\ running' = 0
    /\ \E d \in Deliveries :
            Delivers(t, tasks[t].order_id, d, IF d = "ok" THEN 1 ELSE 0,
                     IF d = "ok" THEN "success" ELSE "error")
    /\ UNCHANGED <<users, orders, gw, credits>>

\* ------------------------------------------- main.py: cancel_payment
\* order = db.get_order(order_id); if order['status'] != 'pending': return
cancel_payment(t, o) ==
    /\ program = "main.py"
    /\ t \in BotTasks
    /\ CanStart(t)
    /\ LET order == get_order(orders, o)
       IN  IF order = NoOrder \/ order.status # "pending"
           THEN /\ Quota("cancel", o, NoEvent, 0,
                         IF order = NoOrder THEN "not_found" ELSE "denied")
                /\ UNCHANGED <<tasks, running>>
           ELSE /\ Quota("cancel", o, NoEvent, 0, "")
                /\ tasks' = [tasks EXCEPT ![t] =
                        [Idle EXCEPT !.kind = "cancel", !.pc = "update_order_status",
                                     !.order_id = o, !.order = Local(order),
                                     !.call = Len(log) + 1]]
                /\ running' = t
    /\ UNCHANGED <<users, orders, transactions, gw, credits>>

\* db.update_order_status(order_id, 'cancelled')
cancel_payment_update_order_status(t) ==
    /\ tasks[t].kind = "cancel"
    /\ tasks[t].pc = "update_order_status"
    /\ orders' = update_order_status(orders, tasks[t].order_id, "cancelled", Null)
    /\ tasks' = [tasks EXCEPT ![t] = Idle]
    /\ running' = 0
    /\ Answer(t, "cancelled")
    /\ UNCHANGED <<users, transactions, gw, credits>>

\* --------------------------------- admin.py: manual_check_payment
\* order = self.db.get_order(order_id); if order['status'] != 'pending': return
manual_check_payment(t, o) ==
    /\ program = "main.py"
    /\ t \in BotTasks
    /\ CanStart(t)
    /\ LET order == get_order(orders, o)
       IN  IF order = NoOrder \/ order.status # "pending"
           THEN /\ Quota("manual_check", o, NoEvent, 1,
                         IF order = NoOrder THEN "not_found" ELSE "denied")
                /\ tasks' = tasks
           ELSE /\ Quota("manual_check", o, NoEvent, 1, "")
                /\ tasks' = [tasks EXCEPT ![t] =
                    [Idle EXCEPT !.kind = "manual_check", !.pc = "gateway",
                                 !.order_id = o, !.order = Local(order),
                                 !.call = Len(log) + 1]]
    /\ UNCHANGED <<users, orders, transactions, gw, running, credits>>

\* payment = await self.cryptobot.check_payment(...); a CryptoBotError leaves the
\* handler; if payment.is_paid: self.db.update_order_status(order_id, 'paid', now)
manual_check_payment_gateway(t) ==
    /\ tasks[t].kind = "manual_check"
    /\ tasks[t].pc = "gateway"
    /\ running = 0
    /\ \E payment \in CheckResults(ParseInt(tasks[t].order.invoice_id)) :
        IF payment.is_paid
        THEN /\ Heard(t, payment, "")
             /\ orders' = update_order_status(orders, tasks[t].order_id, "paid", Now)
             /\ tasks' = [tasks EXCEPT ![t].pc = "update_user_stats",
                                       ![t].payment = payment]
             /\ running' = t
        ELSE /\ Heard(t, payment, IF payment = GatewayError THEN "error" ELSE "not_paid")
             /\ tasks' = [tasks EXCEPT ![t] = Idle]
             /\ UNCHANGED <<orders, running>>
    /\ UNCHANGED <<users, transactions, gw, credits>>

manual_check_payment_update_user_stats(t) ==
    /\ tasks[t].kind = "manual_check"
    /\ tasks[t].pc = "update_user_stats"
    /\ users' = update_user_stats(users, tasks[t].order.user_id, tasks[t].order.amount_usd)
    /\ credits' = OwnerCredited(tasks[t].order)
    /\ tasks' = [tasks EXCEPT ![t].pc = "transaction_exists"]
    /\ UNCHANGED <<orders, transactions, gw, running, log, logging, program, notified>>

\* if not self.db.transaction_exists(...): self.db.create_transaction(...,
\* currency=payment.currency, network=payment.network, ...): PaymentCheck has neither
\* attribute, the AttributeError is raised before create_transaction is entered
manual_check_payment_transaction_exists(t) ==
    /\ tasks[t].kind = "manual_check"
    /\ tasks[t].pc = "transaction_exists"
    /\ tasks' = [tasks EXCEPT ![t] = Idle]
    /\ running' = 0
    /\ IF transaction_exists(transactions, tasks[t].order.invoice_id)
       THEN \E d \in Deliveries : Delivers(t, tasks[t].order_id, d, 0, "success")
       ELSE Answer(t, "error")
    /\ UNCHANGED <<users, orders, transactions, gw, credits>>

\* --------------------------------- admin.py: manual_confirm_order
manual_confirm_order(t, o) ==
    /\ program = "main.py"
    /\ t \in BotTasks
    /\ CanStart(t)
    /\ LET order == get_order(orders, o)
       IN  IF order = NoOrder
           THEN /\ Quota("manual_confirm", o, NoEvent, 1, "not_found")
                /\ UNCHANGED <<tasks, running>>
           ELSE /\ Quota("manual_confirm", o, NoEvent, 1, "")
                /\ tasks' = [tasks EXCEPT ![t] =
                        [Idle EXCEPT !.kind = "manual_confirm", !.pc = "update_order_status",
                                     !.order_id = o, !.order = Local(order),
                                     !.call = Len(log) + 1]]
                /\ running' = t
    /\ UNCHANGED <<users, orders, transactions, gw, credits>>

\* self.db.update_order_status(order_id, 'paid', now)
manual_confirm_order_update_order_status(t) ==
    /\ tasks[t].kind = "manual_confirm"
    /\ tasks[t].pc = "update_order_status"
    /\ orders' = update_order_status(orders, tasks[t].order_id, "paid", Now)
    /\ tasks' = [tasks EXCEPT ![t].pc = "update_user_stats"]
    /\ UNCHANGED <<users, transactions, gw, running, credits, log, logging, program, notified>>

\* self.db.update_user_stats(order['user_id'], order['amount_usd'])
manual_confirm_order_update_user_stats(t) ==
    /\ tasks[t].kind = "manual_confirm"
    /\ tasks[t].pc = "update_user_stats"
    /\ users' = update_user_stats(users, tasks[t].order.user_id, tasks[t].order.amount_usd)
    /\ credits' = OwnerCredited(tasks[t].order)
    /\ tasks' = [tasks EXCEPT ![t] = Idle]
    /\ running' = 0
    /\ \E d \in Deliveries : Delivers(t, tasks[t].order_id, d, 0, "success")
    /\ UNCHANGED <<orders, transactions, gw>>

\* ---------------------------------- admin.py: manual_cancel_order
manual_cancel_order(t, o) ==
    /\ program = "main.py"
    /\ t \in BotTasks
    /\ CanStart(t)
    /\ LET order == get_order(orders, o)
       IN  IF order = NoOrder
           THEN /\ Quota("manual_cancel", o, NoEvent, 0, "not_found")
                /\ UNCHANGED <<tasks, running>>
           ELSE /\ Quota("manual_cancel", o, NoEvent, 0, "")
                /\ tasks' = [tasks EXCEPT ![t] =
                        [Idle EXCEPT !.kind = "manual_cancel", !.pc = "update_order_status",
                                     !.order_id = o, !.order = Local(order),
                                     !.call = Len(log) + 1]]
                /\ running' = t
    /\ UNCHANGED <<users, orders, transactions, gw, credits>>

\* self.db.update_order_status(order_id, 'cancelled')
manual_cancel_order_update_order_status(t) ==
    /\ tasks[t].kind = "manual_cancel"
    /\ tasks[t].pc = "update_order_status"
    /\ orders' = update_order_status(orders, tasks[t].order_id, "cancelled", Null)
    /\ tasks' = [tasks EXCEPT ![t] = Idle]
    /\ running' = 0
    /\ Answer(t, "cancelled")
    /\ UNCHANGED <<users, transactions, gw, credits>>

\* ------------------------------------ admin.py: check_all_pending
\* orders = self.db.get_pending_orders(hours=24); checked = 0; confirmed = 0
check_all_pending(t) ==
    /\ program = "main.py"
    /\ t \in BotTasks
    /\ CanStart(t)
    /\ LET rows == get_pending_orders(orders)
       IN  IF rows = <<>>
           THEN /\ Quota("sweep", 0, NoEvent, 0, "empty")
                /\ tasks' = tasks
           ELSE /\ Quota("sweep", 0, NoEvent, Len(rows), "")
                /\ tasks' = [tasks EXCEPT ![t] =
                   [Idle EXCEPT !.kind = "sweep", !.pc = "gateway",
                                !.queue = [i \in 1 .. Len(rows) |-> Local(rows[i])],
                                !.call = Len(log) + 1]]
    /\ UNCHANGED <<users, orders, transactions, gw, running, credits>>

\* the loop that is left after its first order
SweepNextBreaking(task, checked, confirmed) == Idle

\* the loop goes to its next order, or the report is sent
SweepNext(task, checked, confirmed) ==
    IF Len(task.queue) = 1
    THEN Idle
    ELSE [task EXCEPT !.pc = "gateway", !.queue = Tail(@), !.payment = NoPayment,
                      !.checked = checked, !.confirmed = confirmed]

SweepOutcome(task) == IF Len(task.queue) = 1 THEN "report" ELSE ""

\* payment = await self.cryptobot.check_payment(order['invoice_id']); an exception
\* is swallowed by the loop; if payment.is_paid: update_order_status(..., 'paid', now);
\* else: checked += 1
check_all_pending_gateway(t) ==
    /\ tasks[t].kind = "sweep"
    /\ tasks[t].pc = "gateway"
    /\ running = 0
    /\ LET order == Head(tasks[t].queue)
       IN  \E payment \in CheckResults(ParseInt(order.invoice_id)) :
            IF payment.is_paid
            THEN /\ Heard(t, payment, "")
                 /\ orders' = update_order_status(orders, order.order_id, "paid", Now)
                 /\ tasks' = [tasks EXCEPT ![t].pc = "update_user_stats",
                                           ![t].payment = payment]
                 /\ running' = t
            ELSE /\ HeardCounting(t, payment, SweepOutcome(tasks[t]),
                        IF payment = GatewayError
                        THEN tasks[t].checked ELSE tasks[t].checked + 1,
                        tasks[t].confirmed)
                 /\ tasks' = [tasks EXCEPT ![t] =
                        IF payment = GatewayError
                        THEN SweepNext(tasks[t], tasks[t].checked, tasks[t].confirmed)
                        ELSE SweepNext(tasks[t], tasks[t].checked + 1, tasks[t].confirmed)]
                 /\ UNCHANGED <<orders, running>>
    /\ UNCHANGED <<users, transactions, gw, credits>>

check_all_pending_update_user_stats(t) ==
    /\ tasks[t].kind = "sweep"
    /\ tasks[t].pc = "update_user_stats"
    /\ LET order == Head(tasks[t].queue)
       IN  /\ users' = update_user_stats(users, order.user_id, order.amount_usd)
           /\ credits' = OwnerCredited(order)
    /\ tasks' = [tasks EXCEPT ![t].pc = "transaction_exists"]
    /\ UNCHANGED <<orders, transactions, gw, running, log, logging, program, notified>>

\* if not self.db.transaction_exists(...): create_transaction(..., payment.currency,
\* payment.network, ...) raises AttributeError, which the loop swallows before the
\* counters; otherwise confirmed += 1 and checked += 1
check_all_pending_transaction_exists(t) ==
    /\ tasks[t].kind = "sweep"
    /\ tasks[t].pc = "transaction_exists"
    /\ tasks' = [tasks EXCEPT ![t] =
            IF transaction_exists(transactions, Head(tasks[t].queue).invoice_id)
            THEN SweepNext(tasks[t], tasks[t].checked + 1, tasks[t].confirmed + 1)
            ELSE SweepNext(tasks[t], tasks[t].checked, tasks[t].confirmed)]
    /\ running' = 0
    /\ IF transaction_exists(transactions, Head(tasks[t].queue).invoice_id)
       THEN \E d \in Deliveries :
                DeliversCounting(t, Head(tasks[t].queue).order_id, d,
                                 SweepOutcome(tasks[t]),
                                 tasks[t].checked + 1, tasks[t].confirmed + 1)
       ELSE AnswerCounting(t, SweepOutcome(tasks[t]),
                           tasks[t].checked, tasks[t].confirmed)
    /\ UNCHANGED <<users, orders, transactions, gw, credits>>

\* ------------------------------------------------ webhook.py: handler
\* the handler that goes on to its writes whatever the status of the order
HookFoundUnchecked(t, ev, order) ==
    [Idle EXCEPT !.kind = "webhook", !.pc = "update_order_status",
                 !.order_id = order.order_id, !.order = Local(order),
                 !.event = [NoEvent EXCEPT !.invoice_id = ev.invoice_id,
                                !.amount = ev.amount, !.asset = ev.asset],
                 !.call = Len(log) + 1]

\* the handler once the order is resolved: if order['status'] == 'paid' it answers
\* already_processed, otherwise it goes on to its writes
HookFound(t, ev, order) ==
    IF order.status = "paid"
    THEN Idle
    ELSE [Idle EXCEPT !.kind = "webhook", !.pc = "update_order_status",
                      !.order_id = order.order_id, !.order = Local(order),
                      !.event = [NoEvent EXCEPT !.invoice_id = ev.invoice_id,
                                     !.amount = ev.amount, !.asset = ev.asset],
                      !.call = Len(log) + 1]

\* _handle_webhook: a signature that does not verify is logged and the request is
\* handled all the same; an update_type other than invoice_paid is answered "ignored".
\* _handle_invoice_paid: order = self.db.get_order(order_id) when the payload is set
handle_webhook(t, ev) ==
    /\ program = "main.py"
    /\ t \in HookTasks
    /\ CanStart(t)
    /\ ev \in Posted
    /\ LET order == IF ev.payload # NoPayload
                    THEN get_order(orders, ev.payload) ELSE NoOrder
       IN  IF ~Routed(ev.update_type)
           THEN /\ Quota("webhook", ev.payload, ev, 0, "200 ignored")
                /\ tasks' = tasks
           ELSE IF order = NoOrder
           THEN /\ Quota("webhook", ev.payload, ev, 1, "")
                /\ tasks' = [tasks EXCEPT ![t] =
                        [Idle EXCEPT !.kind = "webhook", !.pc = "get_order_by_invoice",
                                     !.event = [NoEvent EXCEPT !.invoice_id = ev.invoice_id,
                                                    !.amount = ev.amount, !.asset = ev.asset],
                                     !.call = Len(log) + 1]]
           ELSE /\ Quota("webhook", ev.payload, ev, 1,
                         IF order.status = "paid" THEN "200 already_processed" ELSE "")
                /\ tasks' = [tasks EXCEPT ![t] = HookFound(t, ev, order)]
    /\ UNCHANGED <<users, orders, transactions, gw, running, credits>>

\* order = self.db.get_order_by_invoice(str(invoice_id)); 404 when there is none
handle_invoice_paid_get_order_by_invoice(t) ==
    /\ tasks[t].kind = "webhook"
    /\ tasks[t].pc = "get_order_by_invoice"
    /\ LET order == get_order_by_invoice(orders, Str(tasks[t].event.invoice_id))
       IN  IF order = NoOrder
           THEN /\ tasks' = [tasks EXCEPT ![t] = Idle]
                /\ Answer(t, "404")
           ELSE IF order.status = "paid"
           THEN /\ tasks' = [tasks EXCEPT ![t] = Idle]
                /\ Answer(t, "200 already_processed")
           ELSE /\ tasks' = [tasks EXCEPT ![t].pc = "update_order_status",
                                       ![t].order_id = order.order_id,
                                       ![t].order = Local(order)]
                /\ UNCHANGED <<log, logging, program, notified>>
    /\ UNCHANGED <<users, orders, transactions, gw, running, credits>>

\* self.db.update_order_status(order['order_id'], 'paid', now)
handle_invoice_paid_update_order_status(t) ==
    /\ tasks[t].kind = "webhook"
    /\ tasks[t].pc = "update_order_status"
    /\ orders' = update_order_status(orders, tasks[t].order_id, "paid", Now)
    /\ tasks' = [tasks EXCEPT ![t].pc = "update_user_stats"]
    /\ UNCHANGED <<users, transactions, gw, running, credits, log, logging, program, notified>>

\* self.db.update_user_stats(order['user_id'], order['amount_usd'])
handle_invoice_paid_update_user_stats(t) ==
    /\ tasks[t].kind = "webhook"
    /\ tasks[t].pc = "update_user_stats"
    /\ users' = update_user_stats(users, tasks[t].order.user_id, tasks[t].order.amount_usd)
    /\ credits' = OwnerCredited(tasks[t].order)
    /\ tasks' = [tasks EXCEPT ![t].pc = "transaction_exists"]
    /\ UNCHANGED <<orders, transactions, gw, running, log, logging, program, notified>>

\* if not self.db.transaction_exists(str(invoice_id)): ...; return ok, 200
handle_invoice_paid_transaction_exists(t) ==
    /\ tasks[t].kind = "webhook"
    /\ tasks[t].pc = "transaction_exists"
    /\ IF transaction_exists(transactions, Str(tasks[t].event.invoice_id))
       THEN /\ tasks' = [tasks EXCEPT ![t] = Idle]
            /\ \E d \in Deliveries : Delivers(t, tasks[t].order_id, d, 0, "200 ok")
       ELSE /\ tasks' = [tasks EXCEPT ![t].pc = "create_transaction"]
            /\ UNCHANGED <<log, logging, program, notified>>
    /\ UNCHANGED <<users, orders, transactions, gw, running, credits>>

\* self.db.create_transaction(invoice_id=str(invoice_id), order_id=order['order_id'],
\*     amount=float(invoice_data.get('amount', ...)), currency=invoice_data.get('asset', ...));
\* return ok, 200
handle_invoice_paid_create_transaction(t) ==
    /\ tasks[t].kind = "webhook"
    /\ tasks[t].pc = "create_transaction"
    /\ transactions' = create_transaction(transactions, Str(tasks[t].event.invoice_id),
                            tasks[t].order_id, tasks[t].event.amount,
                            tasks[t].event.asset, "paid")
    /\ tasks' = [tasks EXCEPT ![t] = Idle]
    /\ \E d \in Deliveries : Delivers(t, tasks[t].order_id, d, 0, "200 ok")
    /\ UNCHANGED <<users, orders, gw, running, credits>>

\* ------------------------------------------------ bot.py: check_payment
\* SELECT * FROM orders WHERE order_id = ?; "order not found" when there is no row;
\* the stored status is not looked at
bot_check_payment(t, o) ==
    /\ program = "bot.py"
    /\ t \in BotTasks
    /\ CanStart(t)
    /\ LET order == get_order(orders, o)
       IN  IF order = NoOrder
           THEN /\ Quota("bot_check", o, NoEvent, 1, "not_found")
                /\ tasks' = tasks
           ELSE /\ Quota("bot_check", o, NoEvent, 1, "")
                /\ tasks' = [tasks EXCEPT ![t] =
                    [Idle EXCEPT !.kind = "bot_check", !.pc = "gateway",
                                 !.order_id = o, !.order = Local(order),
                                 !.call = Len(log) + 1]]
    /\ UNCHANGED <<users, orders, transactions, gw, running, credits>>

\* payment = await cryptobot.check_payment(int(invoice_id)); if payment["is_paid"] the
\* writes follow; else the "payment in progress" text is shown; an exception is
\* answered with "check failed"
bot_check_payment_gateway(t) ==
    /\ tasks[t].kind = "bot_check"
    /\ tasks[t].pc = "gateway"
    /\ running = 0
    /\ \E payment \in CheckResults(ParseInt(tasks[t].order.invoice_id)) :
        IF payment.is_paid
        THEN /\ Heard(t, payment, "")
             /\ tasks' = [tasks EXCEPT ![t].pc = "commit", ![t].payment = payment]
             /\ running' = t
        ELSE /\ Heard(t, payment, IF payment = GatewayError THEN "error" ELSE "not_paid")
             /\ tasks' = [tasks EXCEPT ![t] = Idle]
             /\ UNCHANGED running
    /\ UNCHANGED <<users, orders, transactions, gw, credits>>

\* UPDATE orders SET status = 'paid', paid_at = ?; UPDATE users SET total_spent =
\* total_spent + ?, orders_count = orders_count + 1; INSERT INTO transactions (...);
\* conn.commit(); the success text is shown
bot_check_payment_commit(t) ==
    /\ tasks[t].kind = "bot_check"
    /\ tasks[t].pc = "commit"
    /\ tasks' = [tasks EXCEPT ![t] = Idle]
    /\ running' = 0
    /\ IF Locked
       THEN /\ Answer(t, "error")
            /\ UNCHANGED <<users, orders, transactions, credits>>
       ELSE /\ orders' = update_order_status(orders, tasks[t].order_id, "paid", Now)
            /\ users' = update_user_stats(users, tasks[t].order.user_id,
                                          tasks[t].order.amount_usd)
            /\ credits' = OwnerCredited(tasks[t].order)
            /\ transactions' = create_transaction(transactions, tasks[t].order.invoice_id,
                                    tasks[t].order_id, tasks[t].payment.amount,
                                    tasks[t].payment.asset, "paid")
            /\ \E d \in Deliveries :
                    Delivers(t, tasks[t].order_id, d, IF d = "ok" THEN 1 ELSE 0,
                             IF d = "ok" THEN "success" ELSE "error")
    /\ UNCHANGED gw

\* ------------------------------------------------ bot.py: the webhook route
\* webhook() of the single-file service: a signature that does not verify is logged
\* and the request is handled all the same; for update_type invoice_paid with a
\* payload: SELECT * FROM orders WHERE order_id = ?, and the writes follow if the
\* order is pending; every other request is answered {"status": "ok"}
webhook(t, ev) ==
    /\ program = "bot.py"
    /\ t \in HookTasks
    /\ CanStart(t)
    /\ ev \in Posted
    /\ LET order == IF Routed(ev.update_type) /\ ev.payload # NoPayload
                    THEN get_order(orders, ev.payload) ELSE NoOrder
       IN  IF order # NoOrder /\ order.status = "pending"
           THEN /\ Quota("bot_webhook", ev.payload, ev, 1, "")
                /\ tasks' = [tasks EXCEPT ![t] =
                        [Idle EXCEPT !.kind = "bot_webhook", !.pc = "commit",
                                     !.order_id = order.order_id, !.order = Local(order),
                                     !.event = [NoEvent EXCEPT !.invoice_id = ev.invoice_id,
                                                    !.amount = ev.amount, !.asset = ev.asset],
                                     !.call = Len(log) + 1]]
           ELSE /\ Quota("bot_webhook", ev.payload, ev, 0, "200 ok")
                /\ tasks' = tasks
    /\ UNCHANGED <<users, orders, transactions, gw, running, credits>>

\* UPDATE orders SET status = 'paid', paid_at = ?; UPDATE users SET total_spent =
\* total_spent + ?, orders_count = orders_count + 1; INSERT INTO transactions (...);
\* conn.commit(); return {"status": "ok"}
\* while another connection holds the write lock the UPDATE waits, and raises when the
\* timeout runs out: return {"error": ...}, 500; bot.send_message(...) is called
\* without await in the Flask thread: the coroutine never runs, nothing is sent
webhook_commit(t) ==
    /\ tasks[t].kind = "bot_webhook"
    /\ tasks[t].pc = "commit"
    /\ tasks' = [tasks EXCEPT ![t] = Idle]
    /\ IF Locked
       THEN /\ Answer(t, "500")
            /\ UNCHANGED <<users, orders, transactions, credits>>
       ELSE /\ orders' = update_order_status(orders, tasks[t].order_id, "paid", Now)
            /\ users' = update_user_stats(users, tasks[t].order.user_id,
                                          tasks[t].order.amount_usd)
            /\ credits' = OwnerCredited(tasks[t].order)
            /\ transactions' = create_transaction(transactions,
                                    Str(tasks[t].event.invoice_id), tasks[t].order_id,
                                    tasks[t].event.amount, tasks[t].event.asset, "paid")
            /\ Answer(t, "200 ok")
    /\ UNCHANGED <<gw, running>>

\* ------------------------------------------------ bot.py: admin_check_all
\* SELECT * FROM orders WHERE status = 'pending'; "no pending payments" when there is
\* no row
bot_admin_check_all(t) ==
    /\ program = "bot.py"
    /\ t \in BotTasks
    /\ CanStart(t)
    /\ LET rows == RowsAsc(orders, {o \in DOMAIN orders : orders[o].status = "pending"})
       IN  IF rows = <<>>
           THEN /\ Quota("bot_sweep", 0, NoEvent, 0, "empty")
                /\ tasks' = tasks
           ELSE /\ Quota("bot_sweep", 0, NoEvent, Len(rows), "")
                /\ tasks' = [tasks EXCEPT ![t] =
                   [Idle EXCEPT !.kind = "bot_sweep", !.pc = "gateway",
                                !.queue = [i \in 1 .. Len(rows) |-> Local(rows[i])],
                                !.call = Len(log) + 1]]
    /\ UNCHANGED <<users, orders, transactions, gw, running, credits>>

\* the loop goes to its next order, or to conn.commit()
BotSweepNext(task, checked) ==
    IF Len(task.queue) = 1
    THEN [task EXCEPT !.pc = "commit", !.queue = <<>>, !.checked = checked]
    ELSE [task EXCEPT !.pc = "gateway", !.queue = Tail(@), !.checked = checked]

\* payment = await cryptobot.check_payment(int(order["invoice_id"])); an exception is
\* logged by the loop; if payment["is_paid"]: the two UPDATEs are executed on the
\* connection, which is committed only after the loop
bot_admin_check_all_gateway(t) ==
    /\ tasks[t].kind = "bot_sweep"
    /\ tasks[t].pc = "gateway"
    /\ running = 0
    /\ LET order == Head(tasks[t].queue)
       IN  \E payment \in CheckResults(ParseInt(order.invoice_id)) :
            /\ Heard(t, payment, "")
            /\ tasks' = [tasks EXCEPT ![t] =
                    IF payment.is_paid
                    THEN [tasks[t] EXCEPT !.pc = "send_message",
                                          !.held = Append(@, order),
                                          !.confirmed = @ + 1]
                    ELSE IF payment = GatewayError
                    THEN BotSweepNext(tasks[t], tasks[t].checked)
                    ELSE BotSweepNext(tasks[t], tasks[t].checked + 1)]
    /\ UNCHANGED <<users, orders, transactions, gw, running, credits>>

\* await bot.send_message(order["user_id"], ...), its exception passed over;
\* checked += 1; await asyncio.sleep(0.5)
bot_admin_check_all_send_message(t) ==
    /\ tasks[t].kind = "bot_sweep"
    /\ tasks[t].pc = "send_message"
    /\ running = 0
    /\ \E d \in Deliveries : Delivers(t, Head(tasks[t].queue).order_id, d, 0, "")
    /\ tasks' = [tasks EXCEPT ![t] = BotSweepNext(tasks[t], tasks[t].checked + 1)]
    /\ UNCHANGED <<users, orders, transactions, gw, running, credits>>

\* the rows after the UPDATEs of the open transaction
RECURSIVE HeldOrders(_, _)
HeldOrders(ords, held) ==
    IF held = <<>> THEN ords
    ELSE HeldOrders(update_order_status(ords, Head(held).order_id, "paid", Now), Tail(held))

RECURSIVE HeldUsers(_, _)
HeldUsers(usrs, held) ==
    IF held = <<>> THEN usrs
    ELSE HeldUsers(update_user_stats(usrs, Head(held).user_id, Head(held).amount_usd),
                   Tail(held))

\* conn.commit(); conn.close(); the report is sent
bot_admin_check_all_commit(t) ==
    /\ tasks[t].kind = "bot_sweep"
    /\ tasks[t].pc = "commit"
    /\ running = 0
    /\ orders' = HeldOrders(orders, tasks[t].held)
    /\ users' = HeldUsers(users, tasks[t].held)
    /\ credits' = [o \in OrderIds |->
            credits[o] + Cardinality({i \in 1 .. Len(tasks[t].held) :
                            /\ tasks[t].held[i].order_id = o
                            /\ tasks[t].held[i].user_id \in DOMAIN users})]
    /\ tasks' = [tasks EXCEPT ![t] = Idle]
    /\ AnswerCounting(t, "report", tasks[t].checked, tasks[t].confirmed)
    /\ UNCHANGED <<transactions, gw, running>>

Next ==
    \/ \E u \in UserIds : cmd_start(u)
    \/ \E u \in UserIds : bot_cmd_start(u)
    \/ \E b \in Purchases, a \in Assets : CreateOrder(b[1], b[2], a)
    \/ \E i \in InvoiceIds : CustomerPays(i)
    \/ \E i \in InvoiceIds : InvoiceExpires(i)
    \/ TimePasses
    \/ \E t \in BotTasks, o \in OrderIds : check_payment(t, o)
    \/ \E t \in BotTasks : check_payment_gateway(t)
    \/ \E t \in BotTasks : check_payment_update_user_stats(t)
    \/ \E t \in BotTasks : check_payment_transaction_exists(t)
    \/ \E t \in BotTasks : check_payment_create_transaction(t)
    \/ \E t \in BotTasks, o \in OrderIds : cancel_payment(t, o)
    \/ \E t \in BotTasks : cancel_payment_update_order_status(t)
    \/ \E t \in BotTasks, o \in OrderIds : manual_check_payment(t, o)
    \/ \E t \in BotTasks : manual_check_payment_gateway(t)
    \/ \E t \in BotTasks : manual_check_payment_update_user_stats(t)
    \/ \E t \in BotTasks : manual_check_payment_transaction_exists(t)
    \/ \E t \in BotTasks, o \in OrderIds : manual_confirm_order(t, o)
    \/ \E t \in BotTasks : manual_confirm_order_update_order_status(t)
    \/ \E t \in BotTasks : manual_confirm_order_update_user_stats(t)
    \/ \E t \in BotTasks, o \in OrderIds : manual_cancel_order(t, o)
    \/ \E t \in BotTasks : manual_cancel_order_update_order_status(t)
    \/ \E t \in BotTasks : check_all_pending(t)
    \/ \E t \in BotTasks : check_all_pending_gateway(t)
    \/ \E t \in BotTasks : check_all_pending_update_user_stats(t)
    \/ \E t \in BotTasks : check_all_pending_transaction_exists(t)
    \/ \E t \in HookTasks, ev \in Requests : handle_webhook(t, ev)
    \/ \E t \in HookTasks : handle_invoice_paid_get_order_by_invoice(t)
    \/ \E t \in HookTasks : handle_invoice_paid_update_order_status(t)
    \/ \E t \in HookTasks : handle_invoice_paid_update_user_stats(t)
    \/ \E t \in HookTasks : handle_invoice_paid_transaction_exists(t)
    \/ \E t \in HookTasks : handle_invoice_paid_create_transaction(t)
    \/ \E t \in BotTasks, o \in OrderIds : bot_check_payment(t, o)
    \/ \E t \in BotTasks : bot_check_payment_gateway(t)
    \/ \E t \in BotTasks : bot_check_payment_commit(t)
    \/ \E t \in HookTasks, ev \in Requests : webhook(t, ev)
    \/ \E t \in HookTasks : webhook_commit(t)
    \/ \E t \in BotTasks : bot_admin_check_all(t)
    \/ \E t \in BotTasks : bot_admin_check_all_gateway(t)
    \/ \E t \in BotTasks : bot_admin_check_all_send_message(t)
    \/ \E t \in BotTasks : bot_admin_check_all_commit(t)

Spec == Init /\ [][Next]_vars

\* the same handlers, forged requests included, the invocations logged and at most
\* MaxLog of them
InitLog ==
    /\ users = <<>>
    /\ orders = <<>>
    /\ transactions = <<>>
    /\ gw = <<>>
    /\ tasks = [t \in TaskIds |-> Idle]
    /\ running = 0
    /\ credits = [o \in OrderIds |-> 0]
    /\ log = <<>>
    /\ logging = TRUE
    /\ program \in Programs
    /\ notified = [o \in OrderIds |-> [user |-> 0, admins |-> 0]]

SpecLog == InitLog /\ [][Next]_vars

\* ----------------------------------------------------------------- claims
Terminal == {"paid", "cancelled", "expired"}

AllIdle == \A t \in TaskIds : tasks[t].kind = "idle"

\* rows of the transactions relation with the invoice id, with the order id
TxOfInvoice(txs, invoice_id) ==
    Cardinality({i \in 1 .. Len(txs) : txs[i].invoice_id = invoice_id})

TxOfOrder(txs, order_id) ==
    Cardinality({i \in 1 .. Len(txs) : txs[i].order_id = order_id})

\* the order a handler in flight works on
Target(task) ==
    IF task.kind = "sweep" THEN Head(task.queue).order_id ELSE task.order_id

\* the step in which task t executes update_order_status(..., 'paid', now)
WritesPaid(t) ==
    \/ /\ tasks[t].pc # "update_user_stats"
       /\ tasks'[t].pc = "update_user_stats"
    \/ /\ tasks[t].pc = "commit"
       /\ tasks'[t].pc # "commit"
       /\ tasks[t].kind = "bot_sweep" \/ ~Locked

\* the step in which task t executes update_order_status(..., 'cancelled')
WritesCancelled(t) ==
    /\ tasks[t].kind \in {"cancel", "manual_cancel"}
    /\ tasks[t].pc = "update_order_status"
    /\ tasks'[t].kind = "idle"

\* C1: whatever the triggers and their interleaving, the owner's total_spent and
\* orders_count are incremented at most once for an order
AtMostOneCreditPerOrder ==
    \A o \in OrderIds : credits[o] <= 1

\* the log of a user check and a webhook delivery of the same pending order that
\* overlap, the check hearing paid from the gateway
RaceOf(o) ==
    /\ Len(log) = 2
    /\ {log[1].kind, log[2].kind} = {"check", "webhook"}
    /\ log[1].order_id = o /\ log[2].order_id = o
    /\ log[1].status = "pending"
    /\ \A i \in 1 .. 2 : log[i].kind = "check" => log[i].replies = <<"paid">>
    /\ \A i \in 1 .. 2 : log[i].kind = "webhook" => log[i].event \in Genuine
    /\ ~log[2].alone

\* C2: the user check and the webhook invoice_paid handler, run concurrently for the
\* same pending order whose invoice is paid, end with exactly one Transaction for the
\* invoice and exactly one increment of the owner's aggregates
RaceYieldsOneCredit ==
    \A o \in DOMAIN orders :
        RaceOf(o) /\ AllIdle =>
            /\ credits[o] = 1
            /\ TxOfInvoice(transactions, orders[o].invoice_id) = 1

\* the log of two user checks of the same order, one after the other, both hearing
\* paid from the gateway
TwiceInARow(o) ==
    /\ Len(log) = 2
    /\ log[1].kind = "check" /\ log[2].kind = "check"
    /\ log[1].order_id = o /\ log[2].order_id = o
    /\ log[1].status = "pending"
    /\ log[1].replies = <<"paid">> /\ log[2].replies = <<"paid">>
    /\ log[1].alone /\ log[2].alone

\* C3: two user checks in a row on an order that was pending before the first, the
\* gateway reporting paid both times, make exactly one Transaction row and exactly
\* one increment of the owner's aggregates
TwiceInARowYieldsOneCredit ==
    \A o \in DOMAIN orders :
        TwiceInARow(o) /\ AllIdle =>
            /\ credits[o] = 1
            /\ TxOfInvoice(transactions, orders[o].invoice_id) = 1

\* C4: once an order is paid, cancelled or expired no step changes its status or
\* adds a Transaction for it; a status only ever changes from pending to a terminal one
TerminalIsFinal ==
    [][\A o \in DOMAIN orders :
        /\ orders[o].status \in Terminal =>
            /\ o \in DOMAIN orders' => orders'[o].status = orders[o].status
            /\ TxOfOrder(transactions', o) = TxOfOrder(transactions, o)
        /\ (o \in DOMAIN orders' /\ orders'[o].status # orders[o].status) =>
            /\ orders[o].status = "pending"
            /\ orders'[o].status \in Terminal]_vars

\* C5: in every reachable state at most one Transaction row exists per invoice id
OneTransactionPerInvoice ==
    \A i \in InvoiceIds : TxOfInvoice(transactions, Str(i)) <= 1

\* C6: status 'paid' is written only onto a row whose stored status is pending at
\* the moment of the write (compare-and-swap on status)
PaidWrittenOnlyOverPending ==
    [][\A t \in TaskIds :
        WritesPaid(t) => get_order(orders, Target(tasks'[t])).status = "pending"]_vars

\* C7: in every state another caller can observe, an order is paid and its owner
\* credited and its Transaction stored, or none of the three
PaidIsAllOrNothing ==
    \A o \in DOMAIN orders :
        LET paid == orders[o].status = "paid"
            credited == credits[o] >= 1
            stored == transaction_exists(transactions, orders[o].invoice_id)
        IN  (paid /\ credited /\ stored) \/ (~paid /\ ~credited /\ ~stored)

\* C8: in every reachable state paid_at is set if and only if the status is paid
PaidAtIffPaid ==
    \A o \in DOMAIN orders :
        (orders[o].paid_at # Null) <=> (orders[o].status = "paid")

\* C9: a cancel by the user or by an admin writes cancelled only onto a pending
\* order, leaves a non-pending order as it is, and never touches users or transactions
CancelOnlyPending ==
    [][\A t \in TaskIds :
        WritesCancelled(t) =>
            /\ users' = users
            /\ transactions' = transactions
            /\ get_order(orders, tasks[t].order_id).status # "pending" => orders' = orders]_vars

\* C10: a user check on an order whose stored status is terminal answers without a
\* gateway query and without a write: it never becomes a handler awaiting the gateway
TerminalCheckSkipsGateway ==
    [][\A t \in BotTasks :
        (tasks[t].kind = "idle" /\ tasks'[t].kind = "check") =>
            get_order(orders, tasks'[t].order_id).status = "pending"]_vars

\* the store is left as it is by a step
StoreUnchanged ==
    /\ users' = users
    /\ orders' = orders
    /\ transactions' = transactions

\* the log of a webhook delivery of the provider that confirmed the pending order and
\* stored its Transaction, followed by a finished user check of the same order
WebhookThenPoll(o) ==
    /\ Len(log) = 2
    /\ log[1].kind = "webhook" /\ log[1].event.signature = "valid"
    /\ log[1].order_id = o /\ log[1].status = "pending" /\ log[1].outcome = "200 ok"
    /\ log[2].kind = "check" /\ log[2].order_id = o
    /\ log[2].alone /\ log[2].status = "paid" /\ log[2].outcome # ""

\* C11: a user check of an order the webhook has already confirmed is answered from
\* the stored status, without a query to the gateway, and the invoice keeps its one
\* Transaction
PollAfterWebhookIsFinal ==
    \A o \in DOMAIN orders :
        WebhookThenPoll(o) =>
            /\ log[2].replies = <<>>
            /\ TxOfInvoice(transactions, orders[o].invoice_id) = 1

\* the log of one finished user check of a pending order that heard the reply
OneCheck(o, reply) ==
    /\ Len(log) = 1
    /\ log[1].kind = "check" /\ log[1].order_id = o
    /\ log[1].status = "pending"
    /\ log[1].replies = <<reply>> /\ log[1].outcome # ""

\* C12: one user check of a pending order whose invoice the gateway reports paid ends
\* with the order paid, paid_at set, the owner's total_spent raised by the order's
\* amount and orders_count by one, and one Transaction for the invoice that carries
\* the settled amount and asset
OneCheckConfirms ==
    \A o \in DOMAIN orders :
        OneCheck(o, "paid") =>
            LET order == orders[o]
                invoice == gw[ParseInt(order.invoice_id)]
            IN  /\ order.status = "paid"
                /\ order.paid_at # Null
                /\ users[order.user_id].total_spent = order.amount_usd
                /\ users[order.user_id].orders_count = 1
                /\ TxOfInvoice(transactions, order.invoice_id) = 1
                /\ \A i \in 1 .. Len(transactions) :
                        /\ transactions[i].order_id = o
                        /\ transactions[i].invoice_id = order.invoice_id
                        /\ transactions[i].amount = invoice.amount
                        /\ transactions[i].currency = invoice.asset
                        /\ transactions[i].status = "paid"

OneCheckConfirmed ==
    \E o \in DOMAIN orders : OneCheck(o, "paid")

\* C13: a user check of a pending order whose invoice the gateway reports expired
\* ends with the order expired, no Transaction and no credit
ExpiredReplyExpiresOrder ==
    \A o \in DOMAIN orders :
        OneCheck(o, "expired") =>
            /\ orders[o].status = "expired"
            /\ transactions = <<>>
            /\ \A u \in DOMAIN users : users[u].total_spent = 0 /\ users[u].orders_count = 0

\* the step in which the invocation of task t hears the reply from the gateway
Hears(t, reply) ==
    /\ tasks[t].pc = "gateway"
    /\ tasks'[t] # tasks[t]
    /\ log'[tasks[t].call].replies = Append(log[tasks[t].call].replies, reply)

\* the step in which a user check, a manual check or a sweep is started
Starts(t) ==
    /\ tasks[t].kind = "idle"
    /\ tasks'[t].kind \in {"check", "bot_check", "manual_check", "sweep"}

\* C14: the steps of a check that hears the invoice still pending (active) from the
\* gateway, its start and its gateway query, leave orders, users and transactions as
\* they are
PendingReplyChangesNothing ==
    [][\A t \in BotTasks :
        Starts(t) \/ Hears(t, "pending") => StoreUnchanged]_vars

HeardPending ==
    \E i \in 1 .. Len(log) :
        /\ log[i].kind = "check"
        /\ log[i].replies = <<"pending">>
        /\ log[i].outcome = "not_paid"

\* C15: the step in which a user check, a manual check or a sweep gets a transport
\* error from the gateway leaves orders, users and transactions as they are: the order
\* stays pending and is not made expired or cancelled
TransportErrorChangesNothing ==
    [][\A t \in BotTasks : Hears(t, "error") => StoreUnchanged]_vars

HeardError ==
    \E i \in 1 .. Len(log) :
        /\ log[i].kind \in {"check", "manual_check"}
        /\ log[i].status = "pending"
        /\ log[i].replies = <<"error">>
        /\ log[i].outcome = "error"
        /\ orders[log[i].order_id].status = "pending"

\* the webhook routes: CryptoBotWebhookHandler of webhook.py and webhook() of bot.py
HookKinds == {"webhook", "bot_webhook"}

\* a request whose signature header is missing or does not match the body
Rejectable(ev) ==
    ev.signature = "" \/ ~verify_webhook_signature(ev.signature)

\* C16: a webhook request whose signature is missing or does not verify changes no
\* order status, credits no user and creates no Transaction
UnverifiedWebhookChangesNothing ==
    (Len(log) = 1 /\ log[1].kind \in HookKinds /\ Rejectable(log[1].event)) =>
        /\ \A o \in DOMAIN orders : orders[o].status = "pending"
        /\ \A u \in DOMAIN users : users[u].total_spent = 0 /\ users[u].orders_count = 0
        /\ transactions = <<>>

\* no stored order has the invoice id
Unresolvable(invoice_id) ==
    \A o \in DOMAIN orders : orders[o].invoice_id # Str(invoice_id)

\* the invocation logged by a step
Logs(kinds) ==
    /\ Len(log') = Len(log) + 1
    /\ log'[Len(log')].kind \in kinds

OnlyInvoicePaidMutates ==
    [][/\ (Logs(HookKinds) /\ log'[Len(log')].event.update_type # "invoice_paid") =>
            /\ log'[Len(log')].outcome \in {"200 ignored", "200 ok"}
            /\ StoreUnchanged
            /\ tasks' = tasks
       /\ \A t \in HookTasks :
            (tasks[t].kind \in HookKinds /\ tasks'[t] # tasks[t] /\ ~StoreUnchanged) =>
                log[tasks[t].call].event.update_type = "invoice_paid"]_vars

\* the deployed route has answered an invoice_expired request about a pending order
OtherUpdateIgnored ==
    \E i \in 1 .. Len(log) :
        /\ log[i].kind \in HookKinds
        /\ log[i].event.update_type = "invoice_expired"
        /\ log[i].status = "pending"
        /\ log[i].outcome \in {"200 ignored", "200 ok"}

\* C19: a webhook route handling invoice_paid takes the order its payload names when
\* that order is stored; otherwise it looks the order up by invoice id and takes that
\* one; the request is treated as order-not-found only when neither lookup finds one
LookupByPayloadThenInvoice ==
    [][\A t \in HookTasks :
        /\ (Logs(HookKinds) /\ log'[Len(log')].event.update_type = "invoice_paid") =>
                LET ev == log'[Len(log')].event
                IN  IF ev.payload \in DOMAIN orders
                    THEN /\ log'[Len(log')].outcome # "404"
                         /\ tasks'[t].kind \in HookKinds =>
                                tasks'[t].order_id = ev.payload
                    ELSE \/ tasks'[t].pc = "get_order_by_invoice"
                         \/ /\ Unresolvable(ev.invoice_id)
                            /\ tasks'[t] = Idle
        /\ (tasks[t].pc = "get_order_by_invoice" /\ tasks'[t] # tasks[t]) =>
                /\ Unresolvable(tasks[t].event.invoice_id) <=>
                        log'[tasks[t].call].outcome = "404"
                /\ tasks'[t].kind = "webhook" =>
                        /\ tasks'[t].pc = "update_order_status"
                        /\ orders[tasks'[t].order_id].invoice_id =
                                Str(tasks[t].event.invoice_id)]_vars

\* C20: the store of database.py does not add a Transaction whose invoice id a stored
\* Transaction already uses: no step raises the number of rows of an invoice id that
\* has a row
UsedInvoiceIdRejected ==
    [][program = "main.py" =>
        \A i \in InvoiceIds :
            TxOfInvoice(transactions, Str(i)) >= 1 =>
                TxOfInvoice(transactions', Str(i)) = TxOfInvoice(transactions, Str(i))]_vars

\* the increments of the aggregates made for the orders of user u
CreditsOf(cr, u) ==
    Sum([o \in OrderIds |-> IF o \in DOMAIN orders /\ orders[o].user_id = u
                            THEN cr[o] ELSE 0], OrderIds)

\* C21: in every step the users rows stay, total_spent and orders_count of a user do
\* not decrease, and they change only in a step that credits one of the user's orders
AggregatesOnlyGrow ==
    [][\A u \in DOMAIN users :
        /\ u \in DOMAIN users'
        /\ users'[u].total_spent >= users[u].total_spent
        /\ users'[u].orders_count >= users[u].orders_count
        /\ users'[u] # users[u] => CreditsOf(credits', u) = CreditsOf(credits, u) + 1]_vars

\* C22: a handler that stores a Transaction or raises a user's aggregates for the
\* order it was started on found that order pending when it started (orders never
\* return to pending, so only such a handler can have moved it from pending to paid)
CreditOnlyOverPending ==
    [][\A t \in TaskIds :
        (/\ tasks[t].kind \notin {"idle", "sweep"}
         /\ tasks'[t] # tasks[t]
         /\ tasks[t].order_id = log[tasks[t].call].order_id
         /\ credits' # credits \/ transactions' # transactions) =>
            log[tasks[t].call].status = "pending"]_vars

\* C23: a user check, sweep or webhook delivery of main.py whose payment-confirmed
\* message could not be delivered does not end as a failed operation, and what it committed stays: the order is paid and the
\* owner has been credited for it
DeliveryFailureIsSwallowed ==
    \A i \in 1 .. Len(log) :
        (log[i].kind \in {"check", "sweep", "webhook"} /\ log[i].delivery = "failed") =>
            /\ log[i].outcome # "error"
            /\ \E o \in DOMAIN orders : orders[o].status = "paid" /\ credits[o] >= 1
\* C24: while the handlers run are user checks, sweeps and webhook deliveries of
\* main.py, in whatever order and interleaving, the payment-confirmed message to the
\* owner of an order has been attempted at most once, and only for an order that is
\* stored as paid
NotifiedAtMostOnce ==
    (\A i \in 1 .. Len(log) : log[i].kind \in {"check", "sweep", "webhook"}) =>
        \A o \in OrderIds :
            /\ notified[o].user <= 1
            /\ notified[o].user >= 1 => o \in DOMAIN orders /\ orders[o].status = "paid"

\* C25: the administrators are messaged only about an order that was confirmed, and
\* one user check or one webhook delivery of the provider that has confirmed its
\* order has sent the message to the administrators
AdminsHearOfEveryConfirmation ==
    /\ \A o \in OrderIds : notified[o].admins >= 1 => credits[o] >= 1
    /\ (/\ Len(log) = 1
        /\ log[1].kind \in {"check", "webhook"}
        /\ log[1].kind = "webhook" => log[1].event \in Genuine
        /\ log[1].outcome \in {"success", "200 ok"}) =>
            \E o \in OrderIds : notified[o].admins = 1
\* the order ids of the stored orders that are pending
PendingIds == {o \in DOMAIN orders : orders[o].status = "pending"}

\* C26: a sweep that starts takes every order that is pending then, whatever its age,
\* each once, and no other order; it reports that there is nothing to check only
\* when no order is pending
SweepTakesAllPending ==
    [][Logs({"sweep", "bot_sweep"}) =>
        /\ tasks' = tasks => PendingIds = {}
        /\ \A t \in BotTasks :
            tasks'[t] # tasks[t] =>
                /\ {tasks'[t].queue[i].order_id : i \in 1 .. Len(tasks'[t].queue)} = PendingIds
                /\ Len(tasks'[t].queue) = Cardinality(PendingIds)]_vars

\* C27: no handler has a gateway query in flight while its connection holds an open
\* write transaction
NoWriteHeldAcrossGateway ==
    \A t \in TaskIds : tasks[t].pc = "gateway" => ~HoldsWrite(t)

\* ---------------------------------------------------------------------------
\* The gateway clients on the provider's answers
\* ---------------------------------------------------------------------------

MaxCalls == 1

\* calls of get_or_create_user a behaviour makes in all
MaxUserCalls == 2

\* the days of age after which the admin's cleanup deletes a cancelled order
CleanupDays == 7

\* raw statuses the provider reports for an invoice
RawStatuses == {"active", "paid", "expired", "cancelled"}

\* what goes wrong with one request: nothing, the transport, or the provider
\* refusing the request
Faults == {"none", "network", "UNAUTHORIZED"}

\* the provider's invoice tables a client can be asked about
ProviderTables ==
    UNION {[S -> {[status |-> st, amount |-> 100, asset |-> "USDT", payload |-> 1] :
                  st \in RawStatuses}] : S \in SUBSET InvoiceIds}

\* the provider's answer to GET getInvoice/<invoice_id>
Response(invoice_id, fault) ==
    IF fault = "network"
    THEN [kind |-> "network", message |-> "", status |-> "", amount |-> 0, asset |-> ""]
    ELSE IF fault # "none"
    THEN [kind |-> "error", message |-> fault, status |-> "", amount |-> 0, asset |-> ""]
    ELSE IF invoice_id \notin DOMAIN gw
    THEN [kind |-> "error", message |-> "INVOICE_NOT_FOUND", status |-> "",
          amount |-> 0, asset |-> ""]
    ELSE [kind |-> "result", message |-> "", status |-> gw[invoice_id].status,
          amount |-> gw[invoice_id].amount, asset |-> gw[invoice_id].asset]

NotFoundCheck == [status |-> "expired", is_paid |-> FALSE, amount |-> 0, asset |-> ""]

\* cryptobot.py, CryptoBotAPI.get_invoice over _make_request: the invoice, None
\* for INVOICE_NOT_FOUND, CryptoBotError raised for anything else
CryptoBotAPI_get_invoice(resp) ==
    IF resp.kind = "result" THEN [kind |-> "invoice", status |-> resp.status,
                                  amount |-> resp.amount, asset |-> resp.asset]
    ELSE IF resp.kind = "error" /\ resp.message = "INVOICE_NOT_FOUND"
    THEN [kind |-> "None", status |-> "", amount |-> 0, asset |-> ""]
    ELSE [kind |-> "raise", status |-> "", amount |-> 0, asset |-> ""]

\* cryptobot.py, CryptoBotAPI.check_payment
CryptoBotAPI_check_payment(resp) ==
    LET invoice == CryptoBotAPI_get_invoice(resp)
    IN  IF invoice.kind = "raise" THEN GatewayError
        ELSE IF invoice.kind = "None" THEN NotFoundCheck
        ELSE LET st == status_map(invoice.status)
             IN  [status |-> st, is_paid |-> (st = "paid"),
                  amount |-> invoice.amount, asset |-> invoice.asset]

\* cryptobot.py, check_payment_sync: every answer without ok and every exception
\* gives an expired result
check_payment_sync(resp) ==
    IF resp.kind # "result" THEN NotFoundCheck
    ELSE LET st == status_map(resp.status)
         IN  [status |-> st, is_paid |-> (st = "paid"),
              amount |-> resp.amount, asset |-> resp.asset]

\* bot.py, CryptoBotAPI.get_invoice over _request: None for every answer without
\* ok, an exception of the transport propagates
bot_CryptoBotAPI_get_invoice(resp) ==
    IF resp.kind = "result" THEN [kind |-> "invoice", status |-> resp.status,
                                  amount |-> resp.amount, asset |-> resp.asset]
    ELSE IF resp.kind = "error"
    THEN [kind |-> "None", status |-> "", amount |-> 0, asset |-> ""]
    ELSE [kind |-> "raise", status |-> "", amount |-> 0, asset |-> ""]

bot_status_map(raw) ==
    CASE raw = "active" -> "pending"
      [] raw = "paid" -> "paid"
      [] raw = "expired" -> "expired"
      [] OTHER -> "unknown"

\* bot.py, CryptoBotAPI.check_payment
bot_CryptoBotAPI_check_payment(resp) ==
    LET invoice == bot_CryptoBotAPI_get_invoice(resp)
    IN  IF invoice.kind = "raise" THEN GatewayError
        ELSE IF invoice.kind = "None"
        THEN [status |-> "unknown", is_paid |-> FALSE, amount |-> 0, asset |-> ""]
        ELSE LET st == bot_status_map(invoice.status)
             IN  [status |-> st, is_paid |-> (st = "paid"),
                  amount |-> invoice.amount, asset |-> invoice.asset]

\* one call of a client, recorded with what it was asked and what it returned
Called(fn, invoice_id, fault, result) ==
    /\ Len(log) < MaxCalls
    /\ log' = Append(log, [kind |-> fn, invoice_id |-> invoice_id, fault |-> fault,
                           raw |-> Response(invoice_id, fault).status,
                           result |-> result])
    /\ UNCHANGED <<users, orders, transactions, gw, tasks, running, credits,
                   logging, program, notified>>

call_check_payment(invoice_id, fault) ==
    /\ program = "main.py"
    /\ Called("cryptobot.check_payment", invoice_id, fault,
              CryptoBotAPI_check_payment(Response(invoice_id, fault)))

call_check_payment_sync(invoice_id, fault) ==
    /\ program = "main.py"
    /\ Called("cryptobot.check_payment_sync", invoice_id, fault,
              check_payment_sync(Response(invoice_id, fault)))

call_bot_check_payment(invoice_id, fault) ==
    /\ program = "bot.py"
    /\ Called("bot.check_payment", invoice_id, fault,
              bot_CryptoBotAPI_check_payment(Response(invoice_id, fault)))

InitClient ==
    /\ users = <<>>
    /\ orders = <<>>
    /\ transactions = <<>>
    /\ gw \in ProviderTables
    /\ tasks = [t \in TaskIds |-> Idle]
    /\ running = 0
    /\ credits = [o \in OrderIds |-> 0]
    /\ log = <<>>
    /\ logging = TRUE
    /\ program \in Programs
    /\ notified = [o \in OrderIds |-> [user |-> 0, admins |-> 0]]

NextClient ==
    \/ \E i \in InvoiceIds, f \in Faults : call_check_payment(i, f)
    \/ \E i \in InvoiceIds, f \in Faults : call_check_payment_sync(i, f)
    \/ \E i \in InvoiceIds, f \in Faults : call_bot_check_payment(i, f)

SpecClient == InitClient /\ [][NextClient]_vars

\* C28: check_payment of the gateway client (cryptobot.py's and bot.py's) answers
\* every response of the provider with one of pending, paid, expired: active
\* gives pending, paid gives paid, expired gives expired, an invoice that is not
\* found or has another raw status gives expired; is_paid holds exactly for paid
CheckPaymentNormalizes ==
    \A i \in 1 .. Len(log) :
        (log[i].kind \in {"cryptobot.check_payment", "bot.check_payment"}
            /\ log[i].fault = "none") =>
            /\ log[i].result.status \in {"pending", "paid", "expired"}
            /\ log[i].result.status =
                   (CASE log[i].raw = "active" -> "pending"
                      [] log[i].raw = "paid" -> "paid"
                      [] OTHER -> "expired")
            /\ log[i].result.is_paid = (log[i].result.status = "paid")

\* C29: a failure of the transport and an error of the provider other than
\* invoice-not-found come back from the gateway client as an error, never as
\* expired or any other status
ErrorsAreNotStatuses ==
    \A i \in 1 .. Len(log) :
        log[i].fault # "none" => log[i].result = GatewayError


\* ---------------------------------------------------------------------------
\* The purchase flow of main.py as written
\* ---------------------------------------------------------------------------

\* Order(id=0, user_id=..., ..., status='pending', created_at=...): the dataclass
\* has no field order_id and the generated order id is not handed to it
Order(user_id, amount_usd, currency, invoice_id) ==
    [user_id |-> user_id, amount_usd |-> amount_usd, currency |-> currency,
     invoice_id |-> invoice_id, status |-> "pending", paid_at |-> Null,
     recent |-> TRUE, old |-> FALSE]

\* Database.create_order reads order.order_id first: on an object without that
\* attribute the call raises AttributeError before the INSERT
Database_create_order(ords, order) ==
    IF "order_id" \in DOMAIN order THEN create_order(ords, order) ELSE ords

\* order_id = f"{datetime.now():%Y%m%d%H%M%S}_{uuid4().hex[:8]}": an id no order
\* and no invoice carries yet
FreshOrderId ==
    CHOOSE o \in OrderIds :
        /\ o \notin DOMAIN orders
        /\ \A i \in DOMAIN gw : gw[i].payload # o
        /\ \A x \in OrderIds :
               (x \notin DOMAIN orders /\ \A i \in DOMAIN gw : gw[i].payload # x) => o <= x

\* cryptobot.create_invoice(amount, asset, payload=order_id), then
\* db.create_order(Order(...)); the exception of create_order is caught and
\* answered with "payment creation error"
PurchaseWithInvoice(u, amount, asset) ==
    /\ program = "main.py"
    /\ running = 0
    /\ u \in DOMAIN users
    /\ InvoiceIds \ DOMAIN gw # {}
    /\ LET order_id == FreshOrderId
           inv == CHOOSE i \in InvoiceIds \ DOMAIN gw :
                      \A j \in InvoiceIds \ DOMAIN gw : i <= j
       IN  /\ gw' = [i \in DOMAIN gw \cup {inv} |->
                        IF i = inv
                        THEN [status |-> "active", amount |-> amount,
                              asset |-> asset, payload |-> order_id]
                        ELSE gw[i]]
           /\ orders' = Database_create_order(orders, Order(u, amount, asset, Str(inv)))
    /\ UNCHANGED <<users, transactions, tasks, running, credits, log, logging,
                   program, notified>>

\* a product with a price: the invoice is made at once
create_payment_callback(u, p, a) ==
    /\ PRODUCTS[p] > 0
    /\ PurchaseWithInvoice(u, PRODUCTS[p], a)

\* amounts a user types for a product without a price
TypedAmounts == {500}

\* a product without a price: the amount the user typed, always in USDT
enter_amount(u, amount) ==
    /\ amount > 0
    /\ PurchaseWithInvoice(u, amount, "USDT")

\* select_asset of bot.py: the invoice, then INSERT INTO orders (order_id, ...)
select_asset(u, p, a) ==
    /\ program = "bot.py"
    /\ CreateOrder(u, p, a)

InitPurchase ==
    /\ users = <<>>
    /\ orders = <<>>
    /\ transactions = <<>>
    /\ gw = <<>>
    /\ tasks = [t \in TaskIds |-> Idle]
    /\ running = 0
    /\ credits = [o \in OrderIds |-> 0]
    /\ log = <<>>
    /\ logging = FALSE
    /\ program \in Programs
    /\ notified = [o \in OrderIds |-> [user |-> 0, admins |-> 0]]

NextPurchase ==
    \/ \E u \in UserIds : cmd_start(u)
    \/ \E u \in UserIds : bot_cmd_start(u)
    \/ \E u \in UserIds, p \in ProductIds, a \in Assets : create_payment_callback(u, p, a)
    \/ \E u \in UserIds, amount \in TypedAmounts : enter_amount(u, amount)
    \/ \E u \in UserIds, p \in ProductIds, a \in Assets : select_asset(u, p, a)
    \/ \E i \in InvoiceIds : CustomerPays(i)
    \/ \E i \in InvoiceIds : InvoiceExpires(i)
    \/ TimePasses

SpecPurchase == InitPurchase /\ [][NextPurchase]_vars

\* C30: every step of the purchase flow that obtains an invoice from the gateway
\* stores exactly one new order: pending, paid_at unset, its order id the payload
\* sent with the invoice, its invoice id the one the gateway returned
InvoiceHasStoredOrder ==
    [][\A i \in DOMAIN gw' \ DOMAIN gw :
          LET new == DOMAIN orders' \ DOMAIN orders
          IN  /\ Cardinality(new) = 1
              /\ \A o \in new :
                    /\ o = gw'[i].payload
                    /\ orders'[o].order_id = o
                    /\ orders'[o].status = "pending"
                    /\ orders'[o].paid_at = Null
                    /\ orders'[o].invoice_id = Str(i)]_vars


\* ---------------------------------------------------------------------------
\* The status query endpoint of webhook.py on the stores the services leave
\* ---------------------------------------------------------------------------

Statuses == {"pending", "paid", "cancelled", "expired"}

\* how long ago a row was created: within the last 24 hours, within the last
\* CleanupDays days, or before that
Ages == {[recent |-> TRUE, old |-> FALSE], [recent |-> FALSE, old |-> FALSE],
         [recent |-> FALSE, old |-> TRUE]}

\* the row of order o after purchase <<u, p>>, in any status and age of its life
StoredRows(o) ==
    {[order_id |-> o, user_id |-> pu[1], product_name |-> PRODUCT_NAMES[pu[2]],
      amount_usd |-> PRODUCTS[pu[2]], currency |-> "USDT",
      invoice_id |-> Str(100 + o), status |-> st,
      paid_at |-> IF st = "paid" THEN Now ELSE Null,
      recent |-> age.recent, old |-> age.old] :
        pu \in Purchases, st \in Statuses, age \in Ages}

\* the orders relations: order ids are given out in turn
Stores ==
    UNION {[1 .. n -> UNION {StoredRows(o) : o \in OrderIds}] : n \in 0 .. Cardinality(OrderIds)}

StoresWellKeyed == {ords \in Stores : \A o \in DOMAIN ords : ords[o].order_id = o}

\* the users relation that goes with an orders relation
UsersOf(ords) ==
    [u \in UserIds |->
        [total_spent |-> Sum([o \in OrderIds |->
                                 IF o \in DOMAIN ords /\ ords[o].user_id = u
                                    /\ ords[o].status = "paid"
                                 THEN ords[o].amount_usd ELSE 0], OrderIds),
         orders_count |-> Cardinality({o \in DOMAIN ords :
                                 ords[o].user_id = u /\ ords[o].status = "paid"})]]

\* the provider's invoices that go with an orders relation
InvoicesOf(ords) ==
    [i \in {ParseInt(ords[o].invoice_id) : o \in DOMAIN ords} |->
        LET order == get_order_by_invoice(ords, Str(i))
        IN  [status |-> IF order.status = "paid" THEN "paid"
                        ELSE IF order.status = "expired" THEN "expired" ELSE "active",
             amount |-> order.amount_usd, asset |-> order.currency,
             payload |-> order.order_id]]

\* the transactions relation that goes with an orders relation: a row for every
\* paid order
RECURSIVE TransactionsOf(_, _)
TransactionsOf(ords, ids) ==
    IF ids = {} THEN <<>>
    ELSE LET o == CHOOSE x \in ids : \A y \in ids : x <= y
         IN  IF ords[o].status = "paid"
             THEN <<[invoice_id |-> ords[o].invoice_id, order_id |-> o,
                     amount |-> ords[o].amount_usd, currency |-> ords[o].currency,
                     status |-> "paid"]>> \o TransactionsOf(ords, ids \ {o})
             ELSE TransactionsOf(ords, ids \ {o})

\* the endpoint that answers 200 for an order that does not exist
order_status_response_no_404(order) ==
    [code |-> 200, status |-> order.status, amount |-> order.amount_usd,
     product |-> order.product_name]

\* jsonify({'status', 'amount', 'product'}) of the row, or 404 'Order not found'
order_status_response(order) ==
    IF order # NoOrder
    THEN [code |-> 200, status |-> order.status, amount |-> order.amount_usd,
          product |-> order.product_name]
    ELSE [code |-> 404, status |-> "", amount |-> 0, product |-> ""]

\* GET /api/status/<order_id>
check_order_status(order_id) ==
    /\ program = "main.py"
    /\ Len(log) < MaxCalls
    /\ log' = Append(log, [kind |-> "status", order_id |-> order_id,
                           response |-> order_status_response(get_order(orders, order_id))])
    /\ UNCHANGED <<users, orders, transactions, gw, tasks, running, credits,
                   logging, program, notified>>

InitStatus ==
    /\ orders \in StoresWellKeyed
    /\ users = UsersOf(orders)
    /\ transactions = TransactionsOf(orders, DOMAIN orders)
    /\ gw = InvoicesOf(orders)
    /\ tasks = [t \in TaskIds |-> Idle]
    /\ running = 0
    /\ credits = [o \in OrderIds |-> 0]
    /\ log = <<>>
    /\ logging = TRUE
    /\ program = "main.py"
    /\ notified = [o \in OrderIds |-> [user |-> 0, admins |-> 0]]

\* the DELETE that leaves out the status of the row
delete_old_orders_of_any_status(ords, days) ==
    [o \in {x \in DOMAIN ords : ~(days = CleanupDays /\ ords[x].old)} |-> ords[o]]

\* DELETE FROM orders WHERE status = 'cancelled' AND datetime(created_at) <
\* datetime('now', '-<days> days')
delete_old_orders(ords, days) ==
    [o \in {x \in DOMAIN ords :
                ~(ords[x].status = "cancelled" /\ days = CleanupDays /\ ords[x].old)} |->
        ords[o]]

\* VACUUM; deleted = self.delete_old_orders(7)
cleanup_database(ords) == delete_old_orders(ords, CleanupDays)

\* AdminPanel.cleanup_database(message, 'old'): self.db.delete_old_orders(7)
admin_cleanup_old ==
    /\ program = "main.py"
    /\ orders' = delete_old_orders(orders, CleanupDays)
    /\ UNCHANGED <<users, transactions, gw, tasks, running, credits, log,
                   logging, program, notified>>

\* AdminPanel.cleanup_database(message, 'vacuum'): self.db.cleanup_database()
admin_cleanup_vacuum ==
    /\ program = "main.py"
    /\ orders' = cleanup_database(orders)
    /\ UNCHANGED <<users, transactions, gw, tasks, running, credits, log,
                   logging, program, notified>>

NextStatus ==
    \/ \E o \in OrderIds : check_order_status(o)
    \/ admin_cleanup_old
    \/ admin_cleanup_vacuum

SpecStatus == InitStatus /\ [][NextStatus]_vars

\* C31: the status query answers with the stored status, amount and product of
\* the order with the given id, with 404 when there is no such order, and
\* leaves users, orders and transactions as they are
StatusQueryReadsTheStore ==
    [][Len(log') > Len(log) =>
          LET e == log'[Len(log')]
          IN  /\ e.kind = "status"
              /\ <<users', orders', transactions'>> = <<users, orders, transactions>>
              /\ IF e.order_id \in DOMAIN orders
                 THEN /\ e.response.code = 200
                      /\ e.response.status = orders[e.order_id].status
                      /\ e.response.amount = orders[e.order_id].amount_usd
                      /\ e.response.product = orders[e.order_id].product_name
                 ELSE e.response.code = 404]_vars

StatusQueried ==
    /\ \E i \in 1 .. Len(log) :
          /\ log[i].kind = "status"
          /\ log[i].response.code = 200
          /\ log[i].response.status = "paid"
          /\ log[i].response.product = "Standard plan"
    /\ Cardinality(DOMAIN orders) = 1


\* C32: in every state that user checks, cancellations and webhook deliveries
\* reach, every user's total_spent is the sum of amount_usd over
\* that user's paid orders and orders_count is the number of those orders
AggregatesMatchPaidOrders ==
    (\A i \in 1 .. Len(log) : log[i].kind \in {"check", "cancel", "webhook"}) =>
        \A u \in DOMAIN users : users[u] = UsersOf(orders)[u]


\* C33: when no confirming operation is in flight, every paid order has a row of
\* the transactions relation with its provider invoice id
PaidOrdersHaveTransaction ==
    AllIdle =>
        \A o \in DOMAIN orders :
            orders[o].status = "paid" => TxOfInvoice(transactions, orders[o].invoice_id) >= 1


\* C34: a webhook route marks an order paid only when the order's stored invoice
\* id is the invoice id of the event it handles, and the Transaction row it
\* stores pairs the order id with that order's own invoice id
WebhookConfirmsOwnInvoiceOnly ==
    [][\A t \in HookTasks :
          (tasks[t].kind \in HookKinds /\ tasks'[t] # tasks[t]) =>
              /\ \A o \in DOMAIN orders :
                    (orders[o].status # "paid" /\ orders'[o].status = "paid") =>
                        orders[o].invoice_id = Str(tasks[t].event.invoice_id)
              /\ Len(transactions') > Len(transactions) =>
                    LET row == transactions'[Len(transactions')]
                    IN  /\ row.order_id \in DOMAIN orders
                        /\ orders[row.order_id].invoice_id = row.invoice_id]_vars


\* gateway answers of a sweep that were paid, and that were answers at all
PaidReplies(entry) ==
    Cardinality({j \in 1 .. Len(entry.replies) : entry.replies[j] = "paid"})

CompletedReplies(entry) ==
    Cardinality({j \in 1 .. Len(entry.replies) : entry.replies[j] # "error"})

\* C35: the report of a bulk sweep shows as confirmed the number of orders the
\* sweep marked paid and as checked the number of orders whose gateway check
\* completed, with confirmed <= checked <= the orders of the sweep
SweepReportCounts ==
    \A i \in 1 .. Len(log) :
        (log[i].kind \in {"sweep", "bot_sweep"} /\ log[i].outcome = "report") =>
            /\ log[i].confirmed = PaidReplies(log[i])
            /\ log[i].checked = CompletedReplies(log[i])
            /\ log[i].confirmed <= log[i].checked
            /\ log[i].checked <= Len(log[i].replies)


SweepKinds == {"sweep", "bot_sweep"}

\* orders of a sweep's snapshot the gateway has not been asked about yet
Unqueried(task) ==
    IF task.pc = "gateway" THEN Len(task.queue)
    ELSE IF task.queue = <<>> THEN 0 ELSE Len(task.queue) - 1

\* what is left of a sweep: the orders of its queue, and the steps of the round
SweepMeasure(task) ==
    4 * Len(task.queue) +
        (CASE task.pc = "gateway" -> 3
           [] task.pc \in {"update_user_stats", "send_message"} -> 2
           [] task.pc \in {"transaction_exists", "commit"} -> 1
           [] OTHER -> 0)

\* C36: a gateway failure on one order of a bulk sweep leaves the store as it is
\* and the sweep goes on with its next order; every order of the snapshot gets
\* its gateway query, once, and every step of the sweep brings it nearer its
\* end, which is reached after one pass
SweepSurvivesGatewayFailure ==
    [][\A t \in BotTasks :
          (tasks[t].kind \in SweepKinds /\ tasks'[t] # tasks[t]) =>
              /\ SweepMeasure(tasks'[t]) < SweepMeasure(tasks[t])
              /\ Len(log'[tasks[t].call].replies) + Unqueried(tasks'[t])
                     = Len(log[tasks[t].call].replies) + Unqueried(tasks[t])
              /\ Hears(t, "error") =>
                    /\ StoreUnchanged
                    /\ tasks'[t].held = tasks[t].held \/ tasks'[t] = Idle
                    /\ Len(tasks[t].queue) > 1 =>
                          /\ tasks'[t].pc = "gateway"
                          /\ tasks'[t].queue = Tail(tasks[t].queue)]_vars

SweepWentOnAfterFailure ==
    \E i \in 1 .. Len(log) :
        /\ log[i].kind \in SweepKinds
        /\ Len(log[i].replies) = 2
        /\ log[i].replies[1] = "error"
        /\ log[i].outcome = "report"
        /\ orders[1].status = "pending"


\* the log of a delivery of the provider's invoice_paid notification that ended
\* with 200 ok, followed by a second delivery of the same notification
Redelivered(l) ==
    /\ Len(l) = 2
    /\ l[1].kind \in HookKinds /\ l[2].kind = l[1].kind
    /\ l[1].event.update_type = "invoice_paid"
    /\ l[1].event.signature = "valid"
    /\ l[2].event = l[1].event
    /\ l[1].outcome = "200 ok"

\* C37: once a delivery of the provider's invoice_paid event has confirmed its order, every
\* step of a second delivery of the same event leaves orders, users, transactions
\* and the credits as they are, and the delivery is answered 200
RedeliveryIsNoOp ==
    [][(/\ Redelivered(log')
        /\ Sum(credits, OrderIds) = 1
        /\ log' # log \/ \E t \in HookTasks : tasks'[t] # tasks[t]) =>
          /\ StoreUnchanged
          /\ credits' = credits
          /\ log'[2].outcome \in {"", "200 already_processed", "200 ok"}
          /\ log'[2].outcome = "200 ok" => log'[2].kind = "bot_webhook"]_vars

RedeliveredTwice ==
    /\ Redelivered(log)
    /\ log[2].outcome = "200 already_processed"
    /\ Sum(credits, OrderIds) = 1
    /\ Len(transactions) = 1


\* C38: delete_old_orders and cleanup_database remove only orders whose status
\* is cancelled: every pending, paid or expired order stays as it is, and users
\* and transactions are left unchanged
CleanupRemovesOnlyCancelled ==
    [][orders' # orders =>
          /\ DOMAIN orders' \subseteq DOMAIN orders
          /\ \A o \in DOMAIN orders :
                \/ o \in DOMAIN orders' /\ orders'[o] = orders[o]
                \/ o \notin DOMAIN orders' /\ orders[o].status = "cancelled"
          /\ users' = users
          /\ transactions' = transactions]_vars

CleanedUp ==
    /\ DOMAIN orders = {2}
    /\ orders[2].status = "paid" /\ orders[2].old
    /\ Len(transactions) = 1
    /\ users[orders[2].user_id].orders_count = 1


\* ---------------------------------------------------------------------------
\* Database.get_or_create_user, statement by statement, called from two threads
\* ---------------------------------------------------------------------------

\* the users relations a call can meet
UserStores ==
    UNION {[S -> {[total_spent |-> 0, orders_count |-> 0],
                  [total_spent |-> PRODUCTS["basic"], orders_count |-> 1]}] :
           S \in SUBSET UserIds}

\* what a call returns: the row as a dict, None, or an exception
Returned(kind, row) ==
    [kind |-> kind, total_spent |-> row.total_spent, orders_count |-> row.orders_count]

NoUser == [total_spent |-> 0, orders_count |-> 0]

\* Database.get_user on its own connection: it reads what is committed
get_user(usrs, user_id) ==
    IF user_id \in DOMAIN usrs THEN Returned("row", usrs[user_id])
    ELSE Returned("None", NoUser)

\* the connection of caller t has executed its INSERT and not committed it
Inserting(t) == tasks[t].kind = "get_or_create_user" /\ tasks[t].pc = "commit"

\* SELECT * FROM users WHERE user_id = ?; if row: return dict(row)
get_or_create_user_select(t, u) ==
    /\ tasks[t].kind = "idle"
    /\ Len(log) < MaxUserCalls
    /\ log' = Append(log, [kind |-> "get_or_create_user", user_id |-> u,
                           result |-> IF u \in DOMAIN users
                                      THEN Returned("row", users[u])
                                      ELSE Returned("", NoUser)])
    /\ tasks' = IF u \in DOMAIN users THEN tasks
                ELSE [tasks EXCEPT ![t] =
                        [Idle EXCEPT !.kind = "get_or_create_user", !.pc = "insert",
                                     !.order_id = u, !.call = Len(log) + 1]]
    /\ UNCHANGED <<users, orders, transactions, gw, running, credits, logging,
                   program, notified>>

\* INSERT INTO users (user_id, ...): it waits while another connection holds the
\* write lock, and raises IntegrityError when the row has been committed meanwhile
get_or_create_user_insert(t) ==
    /\ tasks[t].kind = "get_or_create_user"
    /\ tasks[t].pc = "insert"
    /\ \A other \in TaskIds \ {t} : ~Inserting(other)
    /\ IF tasks[t].order_id \in DOMAIN users
       THEN /\ tasks' = [tasks EXCEPT ![t] = Idle]
            /\ log' = [log EXCEPT ![tasks[t].call].result =
                                        Returned("IntegrityError", NoUser)]
       ELSE /\ tasks' = [tasks EXCEPT ![t].pc = "commit"]
            /\ log' = log
    /\ UNCHANGED <<users, orders, transactions, gw, running, credits, logging,
                   program, notified>>

\* return self.get_user(user_id): the value is computed on a second connection
\* before the with block of the first one commits the INSERT
get_or_create_user_commit(t) ==
    /\ Inserting(t)
    /\ log' = [log EXCEPT ![tasks[t].call].result = get_user(users, tasks[t].order_id)]
    /\ users' = get_or_create_user(users, tasks[t].order_id)
    /\ tasks' = [tasks EXCEPT ![t] = Idle]
    /\ UNCHANGED <<orders, transactions, gw, running, credits, logging,
                   program, notified>>

InitUsers ==
    /\ users \in UserStores
    /\ orders = <<>>
    /\ transactions = <<>>
    /\ gw = <<>>
    /\ tasks = [t \in TaskIds |-> Idle]
    /\ running = 0
    /\ credits = [o \in OrderIds |-> 0]
    /\ log = <<>>
    /\ logging = TRUE
    /\ program = "main.py"
    /\ notified = [o \in OrderIds |-> [user |-> 0, admins |-> 0]]

NextUsers ==
    \/ \E t \in TaskIds, u \in UserIds : get_or_create_user_select(t, u)
    \/ \E t \in TaskIds : get_or_create_user_insert(t)
    \/ \E t \in TaskIds : get_or_create_user_commit(t)

SpecUsers == InitUsers /\ [][NextUsers]_vars

\* C39: every finished call of get_or_create_user has returned the stored record
\* of its user, the call that creates the row included and two calls that run
\* together included, and no call changes the row of a user that exists
GetOrCreateReturnsTheRow ==
    /\ \A i \in 1 .. Len(log) :
          log[i].result.kind # "" =>
              /\ log[i].result.kind = "row"
              /\ log[i].user_id \in DOMAIN users
              /\ log[i].result = Returned("row", users[log[i].user_id])

====
